---------------------------- MODULE Spec2Model ----------------------------
(***************************************************************************)
(* Dead-letter message relocation in the Azure Service Bus explorer:       *)
(* ServiceBusService.resubmitMessage and ServiceBusService.deleteMessage   *)
(* together with the commands that call them, run against a broker whose   *)
(* dead-letter queue hands out peek-lock batches, honours abandon and      *)
(* complete, and may fail any call.                                        *)
(***************************************************************************)
EXTENDS Integers, Sequences, FiniteSets, TLC

(***************************************************************************)
(* Bounds of the model.                                                    *)
(***************************************************************************)
\* sequence numbers 1..MaxSeq exist; the dead-letter queue is any subset
MaxSeq == 3
\* clients (of both kinds) constructed in one run of the extension
MaxClients == 3
\* dispose() calls made in one run of the extension
MaxDisposeCalls == 2
\* nested calls the call stack holds before a RangeError
MaxStack == 5

(***************************************************************************)
(* Program constants.                                                      *)
(***************************************************************************)
\* receiver.peekMessages(100, ...) in resubmitMessage
peekCount == 100
\* receiver.receiveMessages(100, ...) in resubmitMessage (both receivers)
receiveCount == 100
\* const maxMessages = 1000 in deleteMessage
maxMessages == 1000

(***************************************************************************)
(* JavaScript values, tagged by their runtime shape.                       *)
(***************************************************************************)
Undefined == [t |-> "undefined"]
Null == [t |-> "null"]
Str(s) == [t |-> "string", s |-> s]
Bool(b) == [t |-> "boolean", b |-> b]
DateV(ms) == [t |-> "Date", ms |-> ms]
Buf(b) == [t |-> "Buffer", bytes |-> b]
Arr(items) == [t |-> "Array", items |-> items]
\* a plain record: own enumerable properties only
Obj(own) == [t |-> "object", ctor |-> "Object", own |-> own, entries |-> <<>>]
\* an AMQP map: no own properties, content reached through forEach
AmqpMap(entries) == [t |-> "object", ctor |-> "AmqpMap", own |-> <<>>, entries |-> entries]

\* Date.prototype.toISOString: the text is determined by the instant
toISOString(ms) == "iso:" \o ToString(ms)

\* obj.constructor?.name?.includes('Map') with a forEach method
IsMapLike(obj) == obj.ctor \in {"Map", "AmqpMap"}

(***************************************************************************)
(* Integers of BigInt and double width.  A magnitude is a sequence of      *)
(* decimal limbs 0..9999, least significant first, without leading zero    *)
(* limbs; an integer is a sign and a magnitude.                            *)
(***************************************************************************)
RECURSIVE Trim(_)
Trim(x) ==
    IF x = <<>> THEN x
    ELSE IF x[Len(x)] = 0 THEN Trim(SubSeq(x, 1, Len(x) - 1)) ELSE x

\* x * k + c for a small factor k
RECURSIVE MulAdd(_, _, _)
MulAdd(x, k, c) ==
    IF x = <<>>
    THEN IF c = 0 THEN <<>> ELSE <<c % 10000>> \o MulAdd(x, k, c \div 10000)
    ELSE LET v == Head(x) * k + c
         IN <<v % 10000>> \o MulAdd(Tail(x), k, v \div 10000)

RECURSIVE AddMag(_, _, _)
AddMag(x, y, c) ==
    IF x = <<>> /\ y = <<>>
    THEN IF c = 0 THEN <<>> ELSE <<c>>
    ELSE LET a == IF x = <<>> THEN 0 ELSE Head(x)
             b == IF y = <<>> THEN 0 ELSE Head(y)
             v == a + b + c
         IN <<v % 10000>> \o AddMag(IF x = <<>> THEN x ELSE Tail(x),
                                    IF y = <<>> THEN y ELSE Tail(y),
                                    v \div 10000)

\* x - y - borrow for x >= y, before trimming
RECURSIVE SubMag(_, _, _)
SubMag(x, y, borrow) ==
    IF x = <<>> THEN <<>>
    ELSE LET b == IF y = <<>> THEN 0 ELSE Head(y)
             v == Head(x) - b - borrow
         IN <<IF v < 0 THEN v + 10000 ELSE v>>
                \o SubMag(Tail(x), IF y = <<>> THEN y ELSE Tail(y), IF v < 0 THEN 1 ELSE 0)

RECURSIVE LessFrom(_, _, _)
LessFrom(x, y, i) ==
    IF i = 0 THEN FALSE
    ELSE IF x[i] # y[i] THEN x[i] < y[i] ELSE LessFrom(x, y, i - 1)

LessMag(x, y) == IF Len(x) # Len(y) THEN Len(x) < Len(y) ELSE LessFrom(x, y, Len(x))

\* long division by a small divisor, from the most significant limb down
RECURSIVE DivStep(_, _, _, _)
DivStep(x, d, i, rem) ==
    IF i = 0 THEN [q |-> <<>>, r |-> rem]
    ELSE LET cur == rem * 10000 + x[i]
             rest == DivStep(x, d, i - 1, cur % d)
         IN [q |-> Append(rest.q, cur \div d), r |-> rest.r]

Signed(neg, mag) == [neg |-> neg /\ mag # <<>>, mag |-> mag]
Natural(mag) == Signed(FALSE, mag)
Negate(a) == Signed(~a.neg, a.mag)

\* a + b
Plus(a, b) ==
    IF a.neg = b.neg THEN Signed(a.neg, AddMag(a.mag, b.mag, 0))
    ELSE IF LessMag(a.mag, b.mag) THEN Signed(b.neg, Trim(SubMag(b.mag, a.mag, 0)))
    ELSE Signed(a.neg, Trim(SubMag(a.mag, b.mag, 0)))

\* a * k for a small factor k >= 0
Times(a, k) == Signed(a.neg, Trim(MulAdd(a.mag, k, 0)))

\* a < b
Less(a, b) ==
    IF a.neg # b.neg THEN a.neg
    ELSE IF a.neg THEN LessMag(b.mag, a.mag) ELSE LessMag(a.mag, b.mag)

\* a / 10000n on BigInt: the quotient is truncated toward zero
TruncatedQuotient(a) == Signed(a.neg, IF a.mag = <<>> THEN <<>> ELSE Tail(a.mag))

\* a JavaScript number holding an integer below 2^53
Num(a) == [t |-> "number", neg |-> a.neg, mag |-> a.mag]
IntegerOf(num) == Signed(num.neg, num.mag)

(***************************************************************************)
(* Values the AMQP library hands over, and values that misbehave.          *)
(***************************************************************************)
\* a Buffer with known content: octets 0..255
Bytes(octets) == [t |-> "Buffer", octets |-> octets]
\* a Long instance: { low, high, unsigned }
LongV(low, high) ==
    [t |-> "object", ctor |-> "Long",
     own |-> ("low" :> low @@ "high" :> high @@ "unsigned" :> Bool(FALSE)),
     entries |-> <<>>]
\* a described value: { descriptor: { value: 'com.microsoft:datetime-offset' }, value }
DateTimeOffset(value) ==
    Obj("descriptor" :> Obj("value" :> Str("com.microsoft:datetime-offset")) @@ "value" :> value)
\* new Date(NaN)
InvalidDate == [t |-> "Date", invalid |-> TRUE]
\* a method that throws, or returns the given value
Fn(throws, returns) == [t |-> "function", throws |-> throws, returns |-> returns]
\* a property holding the up-th enclosing array or object itself
Ref(up) == [t |-> "ref", up |-> up]
\* a call that ends in an exception instead of a value
Throws(error) == [t |-> "throw", error |-> error]
IsThrown(v) == v.t = "throw"

\* the truth value of v in a condition
ToBoolean(v) ==
    CASE v.t \in {"undefined", "null"} -> FALSE
      [] v.t = "string" -> v.s # ""
      [] v.t = "boolean" -> v.b
      [] v.t = "number" -> v.mag # <<>>
      [] OTHER -> TRUE

\* const ticksToUnixEpoch = BigInt('621355968000000000')
ticksToUnixEpoch == Natural(<<0, 0, 9680, 1355, 62>>)

\* a Date holds at most 8.64e15 ms either side of the epoch; toISOString
\* throws a RangeError beyond
DateToISOString(ms) ==
    IF LessMag(<<0, 0, 0, 8640>>, ms.mag)
    THEN Throws("RangeError: Invalid time value")
    ELSE Str(toISOString(ms))

\* bytes[i] || 0
ByteAt(bytes, i) == IF i <= Len(bytes) THEN bytes[i] ELSE 0

\* for (let i = 0; i < 8; i++) ticks = (ticks << 8n) | BigInt(bytes[i] || 0)
RECURSIVE TicksOf(_, _)
TicksOf(bytes, n) ==
    IF n = 0 THEN <<>> ELSE MulAdd(TicksOf(bytes, n - 1), 256, ByteAt(bytes, n))

\* Number((ticks - ticksToUnixEpoch) / ticksPerMillisecond)
UnixMillis_floor(ticks) ==
    LET d == Plus(Natural(ticks), Negate(ticksToUnixEpoch))
    IN IF d.neg /\ Head(d.mag) # 0
       THEN Plus(TruncatedQuotient(d), Signed(TRUE, <<1>>))
       ELSE TruncatedQuotient(d)

UnixMillis(ticks) == TruncatedQuotient(Plus(Natural(ticks), Negate(ticksToUnixEpoch)))

\* BigInt(bytes[i] || 0) for an array element: a number 0..255 is itself, a
\* falsy element is 0, true is 1; -1 stands for an element the BigInt
\* constructor refuses (a record, a text that is no integer literal)
OctetOf(v) ==
    CASE v.t = "number" /\ ~v.neg /\ Len(v.mag) <= 1 ->
            IF v.mag = <<>> THEN 0 ELSE v.mag[1]
      [] v.t \in {"undefined", "null"} -> 0
      [] v.t = "boolean" -> IF v.b THEN 1 ELSE 0
      [] OTHER -> -1

\* the body of the try block of the datetime-offset branch; value is a
\* Buffer, an array, or a value without indexed elements
DecodeTicks(value) ==
    LET bytes == IF "octets" \in DOMAIN value THEN value.octets
                 ELSE IF value.t = "Array"
                 THEN [i \in DOMAIN value.items |-> OctetOf(value.items[i])]
                 ELSE <<>>
    IN IF \E i \in 1..8 : ByteAt(bytes, i) = -1
       THEN Throws("RangeError: cannot be converted to a BigInt")
       ELSE DateToISOString(UnixMillis(TicksOf(bytes, 8)))

\* the body of the try block of the Long branch, low and high being numbers
LongToValue(low, high) ==
    LET num == Plus(IntegerOf(low), Times(Times(IntegerOf(high), 65536), 65536))
    IN IF Less(Natural(<<0, 0, 0, 1>>), num) /\ Less(num, Natural(<<0, 0, 0, 2>>))
       THEN DateToISOString(num)
       ELSE Num(num)

\* obj.map(...): the first item that throws ends the call
ArrayOf(items) ==
    IF \E i \in DOMAIN items : IsThrown(items[i])
    THEN items[CHOOSE i \in DOMAIN items :
                  IsThrown(items[i]) /\ \A j \in 1..(i - 1) : ~IsThrown(items[j])]
    ELSE Arr(items)

\* the record filled key by key: a key whose conversion throws ends the call
RecordOf(fields) ==
    IF \E k \in DOMAIN fields : IsThrown(fields[k])
    THEN fields[CHOOSE k \in DOMAIN fields : IsThrown(fields[k])]
    ELSE Obj(fields)

\* the call stack holds MaxStack nested calls
RECURSIVE Convert(_, _, _)
Convert(obj, enclosing, depth) ==
    IF depth > MaxStack THEN Throws("RangeError: Maximum call stack size exceeded")
    ELSE
    CASE obj.t \in {"null", "undefined"} -> obj
      [] obj.t = "Date" ->
            IF "ms" \in DOMAIN obj THEN Str(toISOString(obj.ms))
            ELSE Throws("RangeError: Invalid time value")
      [] obj.t = "Buffer" -> obj
      [] obj.t = "ref" ->
            LET at == Len(enclosing) + 1 - obj.up
            IN Convert(enclosing[at], SubSeq(enclosing, 1, at - 1), depth)
      [] obj.t = "Array" ->
            ArrayOf([i \in DOMAIN obj.items |->
                        Convert(obj.items[i], Append(enclosing, obj), depth + 1)])
      [] obj.t = "object" ->
            LET own == obj.own
                descriptor == IF "descriptor" \in DOMAIN own THEN own["descriptor"]
                              ELSE Undefined
                tagged == /\ descriptor.t = "object"
                          /\ "value" \in DOMAIN descriptor.own
                          /\ descriptor.own["value"] = Str("com.microsoft:datetime-offset")
                          /\ "value" \in DOMAIN own
                          /\ ToBoolean(own["value"])
                decoded == IF tagged THEN DecodeTicks(own["value"]) ELSE Undefined
            IN IF tagged /\ ~IsThrown(decoded) THEN decoded
               ELSE IF {"low", "high"} \subseteq DOMAIN own /\ "type" \notin DOMAIN own
               THEN LongToValue(own["low"], own["high"])
               ELSE IF IsMapLike(obj)
               THEN RecordOf([k \in DOMAIN obj.entries |->
                                Convert(obj.entries[k], Append(enclosing, obj), depth + 1)])
               ELSE IF "toJSON" \in DOMAIN own /\ own["toJSON"].t = "function"
               THEN IF own["toJSON"].throws THEN Throws("Error: toJSON failed")
                    ELSE Convert(own["toJSON"].returns, enclosing, depth + 1)
               ELSE RecordOf([k \in DOMAIN own |->
                                Convert(own[k], Append(enclosing, obj), depth + 1)])
      [] OTHER -> obj

convertToPlainObject(obj) == Convert(obj, <<>>, 1)

\* typeof messageBody === 'object' && !Buffer.isBuffer(messageBody), after
\* the null/undefined test
IsConvertibleBody(body) == body.t \in {"Date", "Array", "object"}

\* the body handed to sendMessages: a conversion that throws is caught and
\* the body is used as it is
NormalizeBody(body) ==
    IF body.t \notin {"null", "undefined"} /\ IsConvertibleBody(body)
    THEN LET converted == convertToPlainObject(body)
         IN IF IsThrown(converted) THEN body ELSE converted
    ELSE body

\* { ...v }: the own enumerable properties of v, nothing for null/undefined
Spread(v) == IF v.t = "object" THEN v.own ELSE <<>>

\* { ...a, ...b }: later keys win
Merge(a, b) == [k \in (DOMAIN a) \cup (DOMAIN b) |-> IF k \in DOMAIN b THEN b[k] ELSE a[k]]

(***************************************************************************)
(* The messages that can sit in the dead-letter queue.  Message n has      *)
(* sequence number n; its content is fixed by n so that the model keeps    *)
(* bodies of every shape and two messages that share one message id.       *)
(***************************************************************************)
MessageIdOf(n) == IF n % 3 = 0 THEN "m1" ELSE "m" \o ToString(n)

BodyOf(n) ==
    CASE n % 3 = 1 -> Str("{a:1}")
      [] n % 3 = 2 -> AmqpMap("at" :> DateV(n) @@ "tags" :> Arr(<<Str("x"), DateV(n + 1)>>))
      [] OTHER -> Buf("bytes")

ApplicationPropertiesOf(n) ==
    CASE n % 3 = 1 -> Obj("k" :> Str("v") @@ "x-resubmitted" :> Bool(FALSE))
      [] n % 3 = 2 -> Obj("when" :> DateV(n))
      [] OTHER -> Undefined

DeadLetterReasonOf(n) == IF n % 2 = 1 THEN Str("MaxDeliveryCountExceeded") ELSE Undefined

ReceivedMessage(n) ==
    [sequenceNumber |-> n,
     messageId |-> MessageIdOf(n),
     body |-> BodyOf(n),
     contentType |-> IF n % 3 = 1 THEN Str("application/json") ELSE Undefined,
     correlationId |-> Str("c" \o ToString(n)),
     subject |-> Undefined,
     sessionId |-> IF n % 3 = 2 THEN Str("s1") ELSE Undefined,
     deadLetterReason |-> DeadLetterReasonOf(n),
     applicationProperties |-> ApplicationPropertiesOf(n)]

Catalogue == {ReceivedMessage(n) : n \in 1..MaxSeq}

\* msg.sequenceNumber?.toString()
SeqStr(m) == ToString(m.sequenceNumber)

(***************************************************************************)
(* Broker helpers.                                                         *)
(***************************************************************************)
RECURSIVE SortBySeq(_)
\* the messages of S in ascending sequence-number order
SortBySeq(S) ==
    IF S = {} THEN <<>>
    ELSE LET m == CHOOSE x \in S : \A y \in S : x.sequenceNumber <= y.sequenceNumber
         IN <<m>> \o SortBySeq(S \ {m})

Min(a, b) == IF a <= b THEN a ELSE b

\* messages a receive may hand out: present and not locked
Available(queue, lockedSeqs) == {m \in queue : m.sequenceNumber \notin lockedSeqs}

\* the batches a receive of at most n messages may return (possibly empty)
ReceiveBatches(queue, lockedSeqs, n) ==
    {SortBySeq(S) : S \in {T \in SUBSET Available(queue, lockedSeqs) : Cardinality(T) <= n}}

\* the batches a peek of at most n messages from sequence number 1 may return
PeekBatches(queue, n) ==
    {SubSeq(SortBySeq(queue), 1, k) : k \in 0..Min(n, Cardinality(queue))}

Range(s) == {s[i] : i \in DOMAIN s}

\* Array.prototype.find on sequence numbers
FindBySeq(batch, seqStr) ==
    IF \E i \in DOMAIN batch : SeqStr(batch[i]) = seqStr
    THEN batch[CHOOSE i \in DOMAIN batch :
                  /\ SeqStr(batch[i]) = seqStr
                  /\ \A j \in DOMAIN batch : SeqStr(batch[j]) = seqStr => i <= j]
    ELSE Undefined

(***************************************************************************)
(* State.                                                                  *)
(***************************************************************************)
VARIABLES
    dlq,             \* messages in the dead-letter sub-queue
    locked,          \* sequence numbers held under a peek lock
    origin,          \* messages sent to the origin queue/topic, in order
    op,              \* the service operation in progress
    message,         \* the caller's message (the tree item's snapshot)
    dlq0,            \* the dead-letter sub-queue as it was when the command started
    pc,              \* position of the operation
    crashed,         \* the process died mid-operation
    peekedMessages,  \* result of the confirmation peek
    peekedTarget,    \* the peeked entry with the target sequence number
    messages,        \* the current receive batch
    idx,             \* position of the for-loop in the batch
    targetMessage,   \* the locked target, once bound
    processedCount,  \* deleteMessage's scan counter
    totalDeleted,    \* purgeDeadLetterQueue's completion counter
    call,            \* per caller, the state of its resubmitMessage call (two callers)
    deletedMessages, \* what the receiveAndDelete call removed
    wasDeleted,      \* the receiveAndDelete match flag, once computed
    pending,         \* error travelling through the finally blocks
    result,          \* "pending", "ok" or "error" as seen by the caller
    error,           \* the error the caller sees
    open,            \* senders/receivers created and not yet closed
    notification,    \* what the command shows to the user
    calls,           \* number of invocations of each broker call
    abandoned,       \* sequence numbers abandoned since the last receive
    closeRejected,   \* senders/receivers whose close() rejected
    namespaces,      \* ServiceBusTreeProvider.namespaces
    connectionStrings, \* ServiceBusService.connectionStrings
    clients,         \* ServiceBusService.clients
    adminClients,    \* ServiceBusService.adminClients
    dispose,         \* the dispose() call: position, awaited client, outcome
    returned,        \* the last service call and what it returned
    constructed,     \* number of clients ever constructed (client ids are 1..constructed)
    built,           \* constructions per cache and key since the last eviction
    served,          \* instances handed out per cache and key since the last eviction
    closed,          \* per client, how many close() calls resolved
    disposeCalls,    \* number of dispose() calls made
    typed,           \* the namespace texts the user has entered
    rest,            \* the REST fallback: broker locks by location, the call in progress
    entry,           \* an operation called with an arbitrary target: arguments, position
    conv,            \* convertToPlainObject under test: input, position, outputs
    secrets,         \* context.secrets: the connection string stored per namespace
    addedWith,       \* namespaces added with a connection string and not removed since
    selection        \* the tree item the last command was invoked on

brokerVars == <<dlq, locked, origin>>
\* what the single-caller resubmitMessage and deleteMessage never assign
\* the client pool and the tree provider's namespace list
poolVars == <<namespaces, connectionStrings, clients, adminClients, dispose, returned,
              constructed, built, served, closed, disposeCalls, typed>>
\* the state of the REST helpers, of the target checks and of the value conversion
sideVars == <<rest, entry, conv>>
\* the secret storage of the extension host, which outlives the process
storeVars == <<secrets, addedWith>>
\* what no command and no service operation of a single caller assigns
fixedVars == <<op, message, dlq0, totalDeleted, call, poolVars, sideVars, storeVars>>
steadyVars == <<fixedVars, selection>>
callVars == <<steadyVars, pc, crashed, peekedMessages, peekedTarget, messages, idx,
              targetMessage, processedCount, deletedMessages, wasDeleted, pending,
              result, error, open>>
ghostVars == <<calls, abandoned, closeRejected>>
vars == <<brokerVars, callVars, notification, ghostVars>>

\* no command has been invoked yet
NoSelection == "nothing"

NoCalls == [peek |-> 0, receive |-> 0, abandon |-> 0, send |-> 0, complete |-> 0,
            receiveAndDelete |-> 0, close |-> 0]

Bump(c, name) == [c EXCEPT ![name] = @ + 1]

(***************************************************************************)
(* Namespaces, connection strings and the client caches.  A namespace text *)
(* is a name followed or not by a domain; a connection string is its       *)
(* Endpoint host and its SharedAccessKey.                                  *)
(***************************************************************************)
\* '.servicebus.windows.net' without the leading dot
SbDomain == "servicebus.windows.net"

Names == {"x", "y"}

\* the text name, or name.domain
Namespace(name, domain) == [name |-> name, domain |-> domain]

\* the text ''
EmptyString == Namespace("", "")

\* what the user may type as a namespace
TypedNamespaces == {Namespace(n, d) : n \in Names, d \in {"", SbDomain}}

\* what the user may paste as a connection string (the input box accepts
\* any text with 'Endpoint=sb://' and 'SharedAccessKey')
TypedConnectionStrings ==
    {[host |-> Namespace(n, d), key |-> k] :
        n \in Names, d \in {SbDomain, "example.org"}, k \in {"k1", "k2"}}

\* namespace.includes('.servicebus.windows.net')
IncludesSbDomain(namespace) == namespace.domain = SbDomain

\* connectionString.match(/Endpoint=sb:\/\/([^.]+)\.servicebus\.windows\.net/),
\* then `${match[1]}.servicebus.windows.net` or ''
getNamespaceFromConnectionString(connectionString) ==
    IF IncludesSbDomain(connectionString.host)
    THEN Namespace(connectionString.host.name, SbDomain)
    ELSE EmptyString

\* Map.set, Map.delete and the empty Map
MapSet(m, k, v) == [x \in (DOMAIN m) \cup {k} |-> IF x = k THEN v ELSE m[x]]
MapDelete(m, k) == [x \in (DOMAIN m) \ {k} |-> m[x]]
EmptyMap == <<>>

Caches == {"clients", "adminClients"}

\* the cache keys that can occur
Keys == {Namespace(n, d) : n \in Names, d \in {"", SbDomain}}

NoDispose == [pc |-> "idle", awaiting |-> 0, closes |-> 0, outcome |-> "none"]

\* the service right after its construction, with nothing typed so far
ServiceIdle ==
    /\ connectionStrings = EmptyMap
    /\ clients = EmptyMap
    /\ adminClients = EmptyMap
    /\ dispose = NoDispose
    /\ returned = [call |-> "none"]
    /\ constructed = 0
    /\ built = [c \in Caches, k \in Keys |-> 0]
    /\ served = [c \in Caches, k \in Keys |-> {}]
    /\ closed = <<>>
    /\ disposeCalls = 0
    /\ typed = {}

PoolIdle == namespaces = {} /\ ServiceIdle

\* no REST call, no target check and no conversion in progress
NoRest == [pc |-> "idle"]
NoEntry == [pc |-> "idle"]
NoConv == [pc |-> "idle"]
StoreIdle == secrets = EmptyMap /\ addedWith = {}
SideIdle == rest = NoRest /\ entry = NoEntry /\ conv = NoConv /\ StoreIdle

InitCommon ==
    /\ dlq \in SUBSET Catalogue
    /\ locked = {}
    /\ origin = <<>>
    /\ message \in Catalogue
    /\ dlq0 = dlq
    /\ pc = "idle"
    /\ crashed = FALSE
    /\ peekedMessages = <<>>
    /\ peekedTarget = Undefined
    /\ messages = <<>>
    /\ idx = 1
    /\ targetMessage = Undefined
    /\ processedCount = 0
    /\ totalDeleted = 0
    /\ call = <<>>
    /\ deletedMessages = <<>>
    /\ wasDeleted = Undefined
    /\ pending = "none"
    /\ result = "pending"
    /\ error = "none"
    /\ open = {}
    /\ notification = "none"
    /\ calls = NoCalls
    /\ abandoned = <<>>
    /\ closeRejected = {}
    /\ selection = NoSelection
    /\ PoolIdle
    /\ SideIdle

Init == InitCommon /\ op = "resubmitMessage"


(***************************************************************************)
(* Pieces shared by the operations.                                        *)
(***************************************************************************)
\* message.sequenceNumber?.toString()
targetSequenceNumber == SeqStr(message)

\* msgSeqNum === targetSequenceNumber
IsTarget(msg) == SeqStr(msg) = targetSequenceNumber

SeqsOf(batch) == {batch[i].sequenceNumber : i \in DOMAIN batch}

\* the message sent on the lock path
LockSendMessage(t) ==
    [body |-> NormalizeBody(t.body),
     contentType |-> t.contentType,
     correlationId |-> t.correlationId,
     subject |-> t.subject,
     sessionId |-> t.sessionId,
     messageId |-> t.messageId,
     applicationProperties |->
        Merge(Spread(convertToPlainObject(t.applicationProperties)),
              "x-resubmitted" :> Bool(TRUE)
              @@ "x-original-dead-letter-reason" :> t.deadLetterReason)]

\* the message sent from the peeked snapshot
PeekSendMessage(p) ==
    [body |-> NormalizeBody(p.body),
     contentType |-> p.contentType,
     correlationId |-> p.correlationId,
     subject |-> p.subject,
     sessionId |-> p.sessionId,
     messageId |-> "resubmit-" \o p.messageId,
     applicationProperties |->
        Merge(Spread(convertToPlainObject(p.applicationProperties)),
              "x-resubmitted" :> Bool(TRUE)
              @@ "x-original-dead-letter-reason" :> p.deadLetterReason
              @@ "x-original-message-id" :> Str(p.messageId))]

\* deletedMessages.some(m => m.messageId === targetMessageId ||
\*                           m.sequenceNumber?.toString() === targetSequenceNumber)
\* the match made on sequence numbers alone
WasDeleted_bySequenceNumber(batch, p) ==
    \E i \in DOMAIN batch : SeqStr(batch[i]) = targetSequenceNumber

WasDeleted(batch, p) ==
    \E i \in DOMAIN batch :
        \/ batch[i].messageId = p.messageId
        \/ SeqStr(batch[i]) = targetSequenceNumber

\* what the resubmit command shows once the service call has settled
ResubmitNotification(res) ==
    IF res = "ok" THEN "info:Message resubmitted successfully"
    ELSE "error:Failed to resubmit message"

\* what the delete command shows once the service call has settled
DeleteNotification(res) ==
    IF res = "ok" THEN "info:Message deleted successfully"
    ELSE "error:Failed to delete message"

\* how the awaited service call settles: resolved, or rejected with err
Outcome(err) == IF err = "none" THEN "ok" ELSE "error"

\* the exception (if any) leaves the service call and reaches the command,
\* which shows note
Settle(err, note) ==
    /\ result' = Outcome(err)
    /\ error' = err
    /\ notification' = note
    /\ pc' = "done"

\* an exception thrown inside the try block travels to the finally block
Throw(err, finallyPc) ==
    /\ pending' = err
    /\ pc' = finallyPc

Running(label) == pc = label /\ ~crashed

(***************************************************************************)
(* azureServiceBus.resubmitMessage and ServiceBusService.resubmitMessage.  *)
(***************************************************************************)

\* the resubmit command with the guard !item alone
ResubmitCommand_anyItem ==
    /\ Running("idle") /\ op = "resubmitMessage"
    /\ \E item \in {"none", "activeMessage", "deadLetterMessage"}, confirmed \in BOOLEAN :
          /\ selection' = item
          /\ IF item = "none"
             THEN /\ notification' = "warn:Please select a dead-letter message to resubmit"
                  /\ pc' = "done"
                  /\ open' = open
             ELSE IF ~confirmed
             THEN /\ pc' = "done"
                  /\ UNCHANGED <<notification, open>>
             ELSE /\ open' = {"sender", "receiver"}
                  /\ pc' = "rs_peek"
                  /\ UNCHANGED notification
    /\ UNCHANGED <<brokerVars, fixedVars, crashed, peekedMessages, peekedTarget,
                   messages, idx, targetMessage, processedCount, deletedMessages,
                   wasDeleted, pending, result, error, ghostVars>>

\* the command's guards (!item || !item.messageInfo.isDeadLetter, the modal
\* confirmation), then getClient/createSender/createReceiver for a queue
ResubmitCommand ==
    /\ Running("idle") /\ op = "resubmitMessage"
    /\ \E item \in {"none", "activeMessage", "deadLetterMessage"}, confirmed \in BOOLEAN :
          /\ selection' = item
          /\ IF item # "deadLetterMessage"
             THEN /\ notification' = "warn:Please select a dead-letter message to resubmit"
                  /\ pc' = "done"
                  /\ open' = open
             ELSE IF ~confirmed
             THEN /\ pc' = "done"
                  /\ UNCHANGED <<notification, open>>
             ELSE /\ open' = {"sender", "receiver"}
                  /\ pc' = "rs_peek"
                  /\ UNCHANGED notification
    /\ UNCHANGED <<brokerVars, fixedVars, crashed, peekedMessages, peekedTarget,
                   messages, idx, targetMessage, processedCount, deletedMessages,
                   wasDeleted, pending, result, error, ghostVars>>

\* ConfirmationPeek that peeks once more after an empty answer
ConfirmationPeek_peekAgain ==
    /\ Running("rs_peek")
    /\ calls' = Bump(calls, "peek")
    /\ \/ /\ Throw("PeekFailed", "rs_finally")
          /\ UNCHANGED <<peekedMessages, peekedTarget>>
       \/ \E p \in PeekBatches(dlq, peekCount) :
             /\ peekedMessages' = p
             /\ IF Len(p) = 0
                THEN /\ IF calls["peek"] = 0
                        THEN UNCHANGED <<pc, pending>>
                        ELSE Throw("NoMessagesInDlq", "rs_finally")
                     /\ UNCHANGED peekedTarget
                ELSE IF FindBySeq(p, targetSequenceNumber) = Undefined
                THEN /\ Throw("TargetNotFound", "rs_finally")
                     /\ UNCHANGED peekedTarget
                ELSE /\ peekedTarget' = FindBySeq(p, targetSequenceNumber)
                     /\ pc' = "rs_receive"
                     /\ UNCHANGED pending
    /\ UNCHANGED <<brokerVars, steadyVars, crashed, messages, idx, targetMessage,
                   processedCount, deletedMessages, wasDeleted, result, error, open,
                   notification, abandoned>>
    /\ UNCHANGED closeRejected

\* confirmation peek and the two not-found exits
ConfirmationPeek ==
    /\ Running("rs_peek")
    /\ calls' = Bump(calls, "peek")
    /\ \/ /\ Throw("PeekFailed", "rs_finally")
          /\ UNCHANGED <<peekedMessages, peekedTarget>>
       \/ \E p \in PeekBatches(dlq, peekCount) :
             /\ peekedMessages' = p
             /\ IF Len(p) = 0
                THEN /\ Throw("NoMessagesInDlq", "rs_finally")
                     /\ UNCHANGED peekedTarget
                ELSE IF FindBySeq(p, targetSequenceNumber) = Undefined
                THEN /\ Throw("TargetNotFound", "rs_finally")
                     /\ UNCHANGED peekedTarget
                ELSE /\ peekedTarget' = FindBySeq(p, targetSequenceNumber)
                     /\ pc' = "rs_receive"
                     /\ UNCHANGED pending
    /\ UNCHANGED <<brokerVars, steadyVars, crashed, messages, idx, targetMessage,
                   processedCount, deletedMessages, wasDeleted, result, error, open,
                   notification, abandoned>>
    /\ UNCHANGED closeRejected

\* where the code goes once the for-loop over the batch is over
AfterLoop(target) == IF target = Undefined THEN "rs_peek_send" ELSE "rs_send"

\* LockReceive that treats an empty batch as "not found", without the fallback
LockReceive_notFoundOnEmpty ==
    /\ Running("rs_receive")
    /\ calls' = Bump(calls, "receive")
    /\ \/ /\ Throw("ReceiveFailed", "rs_finally")
          /\ UNCHANGED <<messages, locked, idx, abandoned>>
       \/ \E b \in ReceiveBatches(dlq, locked, receiveCount) :
             /\ messages' = b
             /\ locked' = locked \cup SeqsOf(b)
             /\ idx' = 1
             /\ abandoned' = <<>>
             /\ IF Len(b) > 0
                THEN pc' = "rs_loop" /\ UNCHANGED pending
                ELSE Throw("TargetNotFound", "rs_finally")
    /\ UNCHANGED <<dlq, origin, steadyVars, crashed, peekedMessages, peekedTarget,
                   targetMessage, processedCount, deletedMessages, wasDeleted, result,
                   error, open, notification>>
    /\ UNCHANGED closeRejected

\* receiver.receiveMessages(100, ...) in peekLock mode
LockReceive ==
    /\ Running("rs_receive")
    /\ calls' = Bump(calls, "receive")
    /\ \/ /\ Throw("ReceiveFailed", "rs_finally")
          /\ UNCHANGED <<messages, locked, idx, abandoned>>
       \/ \E b \in ReceiveBatches(dlq, locked, receiveCount) :
             /\ messages' = b
             /\ locked' = locked \cup SeqsOf(b)
             /\ idx' = 1
             /\ abandoned' = <<>>
             /\ pc' = IF Len(b) > 0 THEN "rs_loop" ELSE AfterLoop(targetMessage)
             /\ UNCHANGED pending
    /\ UNCHANGED <<dlq, origin, steadyVars, crashed, peekedMessages, peekedTarget,
                   targetMessage, processedCount, deletedMessages, wasDeleted, result,
                   error, open, notification>>
    /\ UNCHANGED closeRejected

\* LoopStep without the else: every message of the batch is abandoned
LoopStep_abandonAll ==
    /\ Running("rs_loop")
    /\ idx <= Len(messages)
    /\ LET msg == messages[idx]
           bound == IF IsTarget(msg) THEN msg ELSE targetMessage
       IN /\ targetMessage' = bound
          /\ calls' = Bump(calls, "abandon")
          /\ \/ /\ Throw("AbandonFailed", "rs_finally")
                /\ UNCHANGED <<locked, idx, abandoned>>
             \/ /\ locked' = locked \ {msg.sequenceNumber}
                /\ abandoned' = Append(abandoned, msg.sequenceNumber)
                /\ idx' = idx + 1
                /\ pc' = IF idx + 1 <= Len(messages) THEN "rs_loop" ELSE AfterLoop(bound)
                /\ UNCHANGED pending
    /\ UNCHANGED <<dlq, origin, steadyVars, crashed, peekedMessages, peekedTarget,
                   messages, processedCount, deletedMessages, wasDeleted, result, error,
                   open, notification>>
    /\ UNCHANGED closeRejected

\* one iteration of the for-loop: bind the target or abandon the message
LoopStep ==
    /\ Running("rs_loop")
    /\ idx <= Len(messages)
    /\ LET msg == messages[idx]
           next(target) == IF idx + 1 <= Len(messages) THEN "rs_loop" ELSE AfterLoop(target)
       IN IF IsTarget(msg)
          THEN /\ targetMessage' = msg
               /\ idx' = idx + 1
               /\ pc' = next(msg)
               /\ UNCHANGED <<locked, pending, calls, abandoned>>
          ELSE /\ calls' = Bump(calls, "abandon")
               /\ \/ /\ Throw("AbandonFailed", "rs_finally")
                     /\ UNCHANGED <<locked, idx, abandoned>>
                  \/ /\ locked' = locked \ {msg.sequenceNumber}
                     /\ abandoned' = Append(abandoned, msg.sequenceNumber)
                     /\ idx' = idx + 1
                     /\ pc' = next(targetMessage)
                     /\ UNCHANGED pending
               /\ UNCHANGED targetMessage
    /\ UNCHANGED <<dlq, origin, steadyVars, crashed, peekedMessages, peekedTarget,
                   messages, processedCount, deletedMessages, wasDeleted, result, error,
                   open, notification>>
    /\ UNCHANGED closeRejected

\* peek path: send the message rebuilt from the peeked snapshot
PeekSend ==
    /\ Running("rs_peek_send")
    /\ calls' = Bump(calls, "send")
    /\ \/ /\ Throw("SendFailed", "rs_finally")
          /\ UNCHANGED origin
       \/ /\ origin' = Append(origin, PeekSendMessage(peekedTarget))
          /\ pc' = "rs_close_receiver"
          /\ UNCHANGED pending
    /\ UNCHANGED <<dlq, locked, steadyVars, crashed, peekedMessages, peekedTarget,
                   messages, idx, targetMessage, processedCount, deletedMessages,
                   wasDeleted, result, error, open, notification, abandoned>>
    /\ UNCHANGED closeRejected

\* peek path: close the peekLock receiver, create the receiveAndDelete one
SwitchReceiver ==
    /\ Running("rs_close_receiver")
    /\ calls' = Bump(calls, "close")
    /\ \/ /\ Throw("CloseFailed", "rs_finally")
          /\ closeRejected' = closeRejected \cup {"receiver"}
          /\ UNCHANGED <<open, locked>>
       \/ /\ open' = (open \ {"receiver"}) \cup {"deleteReceiver"}
          /\ locked' = {}
          /\ pc' = "rs_delete"
          /\ UNCHANGED <<pending, closeRejected>>
    /\ UNCHANGED <<dlq, origin, steadyVars, crashed, peekedMessages, peekedTarget,
                   messages, idx, targetMessage, processedCount, deletedMessages,
                   wasDeleted, result, error, notification, abandoned>>

\* peek path: deleteReceiver.receiveMessages(100, ...) removes what it returns
ReceiveAndDelete ==
    /\ Running("rs_delete")
    /\ calls' = Bump(calls, "receiveAndDelete")
    /\ \/ /\ Throw("ReceiveAndDeleteFailed", "rs_close_delete")
          /\ UNCHANGED <<dlq, deletedMessages, wasDeleted>>
       \/ \E b \in ReceiveBatches(dlq, locked, receiveCount) :
             /\ deletedMessages' = b
             /\ dlq' = dlq \ Range(b)
             /\ wasDeleted' = Bool(WasDeleted(b, peekedTarget))
             /\ pc' = "rs_close_delete"
             /\ UNCHANGED pending
    /\ UNCHANGED <<locked, origin, steadyVars, crashed, peekedMessages, peekedTarget,
                   messages, idx, targetMessage, processedCount, result, error, open,
                   notification, abandoned>>
    /\ UNCHANGED closeRejected

\* peek path: the inner finally closes the receiveAndDelete receiver
CloseDeleteReceiver ==
    /\ Running("rs_close_delete")
    /\ calls' = Bump(calls, "close")
    /\ \/ /\ pending' = "CloseFailed"
          /\ closeRejected' = closeRejected \cup {"deleteReceiver"}
          /\ UNCHANGED open
       \/ /\ open' = open \ {"deleteReceiver"}
          /\ UNCHANGED <<pending, closeRejected>>
    /\ pc' = "rs_finally"
    /\ UNCHANGED <<brokerVars, steadyVars, crashed, peekedMessages, peekedTarget,
                   messages, idx, targetMessage, processedCount, deletedMessages,
                   wasDeleted, result, error, notification, abandoned>>

\* LockSend with the send's rejection swallowed: the code goes on to complete
LockSend_ignoreSendFailure ==
    /\ Running("rs_send")
    /\ calls' = Bump(calls, "send")
    /\ \/ /\ pc' = "rs_complete"
          /\ UNCHANGED <<origin, pending>>
       \/ /\ origin' = Append(origin, LockSendMessage(targetMessage))
          /\ pc' = "rs_complete"
          /\ UNCHANGED pending
    /\ UNCHANGED <<dlq, locked, steadyVars, crashed, peekedMessages, peekedTarget,
                   messages, idx, targetMessage, processedCount, deletedMessages,
                   wasDeleted, result, error, open, notification, abandoned>>
    /\ UNCHANGED closeRejected

\* LockSend with the two calls in the wrong order: complete, then send
LockSend_completeFirst ==
    /\ Running("rs_send")
    /\ calls' = Bump(Bump(calls, "complete"), "send")
    /\ dlq' = dlq \ {targetMessage}
    /\ locked' = locked \ {targetMessage.sequenceNumber}
    /\ \/ /\ Throw("SendFailed", "rs_finally")
          /\ UNCHANGED origin
       \/ /\ origin' = Append(origin, LockSendMessage(targetMessage))
          /\ pc' = "rs_finally"
          /\ UNCHANGED pending
    /\ UNCHANGED <<steadyVars, crashed, peekedMessages, peekedTarget,
                   messages, idx, targetMessage, processedCount, deletedMessages,
                   wasDeleted, result, error, open, notification, abandoned>>
    /\ UNCHANGED closeRejected

\* lock path: send the message rebuilt from the locked target
LockSend ==
    /\ Running("rs_send")
    /\ calls' = Bump(calls, "send")
    /\ \/ /\ Throw("SendFailed", "rs_finally")
          /\ UNCHANGED origin
       \/ /\ origin' = Append(origin, LockSendMessage(targetMessage))
          /\ pc' = "rs_complete"
          /\ UNCHANGED pending
    /\ UNCHANGED <<dlq, locked, steadyVars, crashed, peekedMessages, peekedTarget,
                   messages, idx, targetMessage, processedCount, deletedMessages,
                   wasDeleted, result, error, open, notification, abandoned>>
    /\ UNCHANGED closeRejected

\* lock path: receiver.completeMessage(targetMessage)
CompleteTarget ==
    /\ Running("rs_complete")
    /\ calls' = Bump(calls, "complete")
    /\ \/ /\ pending' = "CompleteFailed"
          /\ UNCHANGED <<dlq, locked>>
       \/ /\ dlq' = dlq \ {targetMessage}
          /\ locked' = locked \ {targetMessage.sequenceNumber}
          /\ UNCHANGED pending
    /\ pc' = "rs_finally"
    /\ UNCHANGED <<origin, steadyVars, crashed, peekedMessages, peekedTarget,
                   messages, idx, targetMessage, processedCount, deletedMessages,
                   wasDeleted, result, error, open, notification, abandoned>>
    /\ UNCHANGED closeRejected

\* finally: await sender.close()
FinallyCloseSender ==
    /\ Running("rs_finally")
    /\ calls' = Bump(calls, "close")
    /\ \/ /\ Settle("CloseFailed", ResubmitNotification(Outcome("CloseFailed")))
          /\ closeRejected' = closeRejected \cup {"sender"}
          /\ UNCHANGED open
       \/ /\ open' = open \ {"sender"}
          /\ pc' = "rs_finally_receiver"
          /\ UNCHANGED <<result, error, notification, closeRejected>>
    /\ UNCHANGED <<brokerVars, steadyVars, crashed, peekedMessages, peekedTarget,
                   messages, idx, targetMessage, processedCount, deletedMessages,
                   wasDeleted, pending, abandoned>>

\* finally: await receiver.close(); the call then returns or rethrows
FinallyCloseReceiver ==
    /\ Running("rs_finally_receiver")
    /\ calls' = Bump(calls, "close")
    /\ \/ /\ "receiver" \in open
          /\ Settle("CloseFailed", ResubmitNotification(Outcome("CloseFailed")))
          /\ closeRejected' = closeRejected \cup {"receiver"}
          /\ UNCHANGED <<open, locked>>
       \/ /\ open' = open \ {"receiver"}
          /\ locked' = {}
          /\ Settle(pending, ResubmitNotification(Outcome(pending)))
          /\ UNCHANGED closeRejected
    /\ UNCHANGED <<dlq, origin, steadyVars, crashed, peekedMessages, peekedTarget,
                   messages, idx, targetMessage, processedCount, deletedMessages,
                   wasDeleted, pending, abandoned>>

\* the process dies in the middle of an operation
Crash ==
    /\ pc \notin {"idle", "done"}
    /\ ~crashed
    /\ crashed' = TRUE
    /\ UNCHANGED <<brokerVars, steadyVars, pc, peekedMessages, peekedTarget, messages,
                   idx, targetMessage, processedCount, deletedMessages, wasDeleted,
                   pending, result, error, open, notification, ghostVars>>

Next ==
    \/ ResubmitCommand
    \/ ConfirmationPeek
    \/ LockReceive
    \/ LoopStep
    \/ PeekSend
    \/ SwitchReceiver
    \/ ReceiveAndDelete
    \/ CloseDeleteReceiver
    \/ LockSend
    \/ CompleteTarget
    \/ FinallyCloseSender
    \/ FinallyCloseReceiver
    \/ Crash

Spec == Init /\ [][Next]_vars

(***************************************************************************)
(* azureServiceBus.deleteMessage and ServiceBusService.deleteMessage.      *)
(***************************************************************************)
InitDelete == InitCommon /\ op = "deleteMessage"

\* the command's guards, then getClient/createReceiver for a queue
DeleteCommand ==
    /\ Running("idle") /\ op = "deleteMessage"
    /\ \E item \in {"none", "activeMessage", "deadLetterMessage"}, confirmed \in BOOLEAN :
          /\ selection' = item
          /\ IF item # "deadLetterMessage"
             THEN /\ notification' = "warn:Please select a dead-letter message to delete"
                  /\ pc' = "done"
                  /\ open' = open
             ELSE IF ~confirmed
             THEN /\ pc' = "done"
                  /\ UNCHANGED <<notification, open>>
             ELSE /\ open' = {"receiver"}
                  /\ pc' = "dm_receive"
                  /\ UNCHANGED notification
    /\ UNCHANGED <<brokerVars, fixedVars, crashed, peekedMessages, peekedTarget,
                   messages, idx, targetMessage, processedCount, deletedMessages,
                   wasDeleted, pending, result, error, ghostVars>>

\* while (processedCount < maxMessages)
ScanContinues(count) == count < maxMessages

\* one pass of the scan loop up to its await on abandonMessage: receive a
\* single message, stop on an empty batch or on the target
ScanReceive ==
    /\ Running("dm_receive")
    /\ ScanContinues(processedCount)
    /\ calls' = Bump(calls, "receive")
    /\ \/ /\ Throw("ReceiveFailed", "dm_finally")
          /\ UNCHANGED <<messages, locked, processedCount, targetMessage, abandoned>>
       \/ \E b \in ReceiveBatches(dlq, locked, 1) :
             /\ messages' = b
             /\ abandoned' = <<>>
             /\ locked' = locked \cup SeqsOf(b)
             /\ IF Len(b) = 0
                THEN /\ Throw("MessageNotFound", "dm_finally")
                     /\ UNCHANGED <<processedCount, targetMessage>>
                ELSE /\ processedCount' = processedCount + 1
                     /\ IF IsTarget(b[1])
                        THEN /\ targetMessage' = b[1]
                             /\ pc' = "dm_complete"
                        ELSE /\ pc' = "dm_abandon"
                             /\ UNCHANGED targetMessage
                     /\ UNCHANGED pending
    /\ UNCHANGED <<dlq, origin, steadyVars, crashed, peekedMessages, peekedTarget, idx,
                   deletedMessages, wasDeleted, result, error, open, notification>>
    /\ UNCHANGED closeRejected

\* the mismatch branch: abandon, then re-test the loop condition
ScanAbandon ==
    /\ Running("dm_abandon")
    /\ calls' = Bump(calls, "abandon")
    /\ \/ /\ Throw("AbandonFailed", "dm_finally")
          /\ UNCHANGED <<locked, abandoned>>
       \/ /\ locked' = locked \ {messages[1].sequenceNumber}
          /\ abandoned' = Append(abandoned, messages[1].sequenceNumber)
          /\ IF ScanContinues(processedCount)
             THEN pc' = "dm_receive" /\ UNCHANGED pending
             ELSE Throw("MessageNotFound", "dm_finally")
    /\ UNCHANGED <<dlq, origin, steadyVars, crashed, peekedMessages, peekedTarget,
                   messages, idx, targetMessage, processedCount, deletedMessages,
                   wasDeleted, result, error, open, notification>>
    /\ UNCHANGED closeRejected

\* receiver.completeMessage(targetMessage)
DeleteComplete ==
    /\ Running("dm_complete")
    /\ calls' = Bump(calls, "complete")
    /\ \/ /\ pending' = "CompleteFailed"
          /\ UNCHANGED <<dlq, locked>>
       \/ /\ dlq' = dlq \ {targetMessage}
          /\ locked' = locked \ {targetMessage.sequenceNumber}
          /\ UNCHANGED pending
    /\ pc' = "dm_finally"
    /\ UNCHANGED <<origin, steadyVars, crashed, peekedMessages, peekedTarget,
                   messages, idx, targetMessage, processedCount, deletedMessages,
                   wasDeleted, result, error, open, notification, abandoned>>
    /\ UNCHANGED closeRejected

\* finally: await receiver.close(); the call then returns or rethrows
DeleteFinally ==
    /\ Running("dm_finally")
    /\ calls' = Bump(calls, "close")
    /\ \/ /\ Settle("CloseFailed", DeleteNotification(Outcome("CloseFailed")))
          /\ closeRejected' = closeRejected \cup {"receiver"}
          /\ UNCHANGED <<open, locked>>
       \/ /\ open' = open \ {"receiver"}
          /\ locked' = {}
          /\ Settle(pending, DeleteNotification(Outcome(pending)))
          /\ UNCHANGED closeRejected
    /\ UNCHANGED <<dlq, origin, steadyVars, crashed, peekedMessages, peekedTarget,
                   messages, idx, targetMessage, processedCount, deletedMessages,
                   wasDeleted, pending, abandoned>>

NextDelete ==
    \/ DeleteCommand
    \/ ScanReceive
    \/ ScanAbandon
    \/ DeleteComplete
    \/ DeleteFinally
    \/ Crash

SpecDelete == InitDelete /\ [][NextDelete]_vars

(***************************************************************************)
(* Properties of resubmitMessage (checked under Spec).                     *)
(***************************************************************************)
NotFoundErrors == {"NoMessagesInDlq", "TargetNotFound"}

\* the origin entity holds the target's (normalised) body
ContentInOrigin == \E i \in DOMAIN origin : origin[i].body = NormalizeBody(message.body)

\* the dead-letter queue holds a message with the target's sequence number
TargetSeqInDlq == \E m \in dlq : SeqStr(m) = targetSequenceNumber

\* C1: on the lock path completeMessage is invoked only after sendMessages
\* returned successfully (the one message in the origin is the one built
\* from the locked target), and after a failed send it is never invoked.
C1_SendBeforeComplete ==
    (op = "resubmitMessage" /\ targetMessage # Undefined) =>
        /\ (calls.complete > 0 \/ pc = "rs_complete") =>
              (calls.send = 1 /\ origin = <<LockSendMessage(targetMessage)>>)
        /\ calls.send > Len(origin) => (calls.complete = 0 /\ pc # "rs_complete")

C1_Witness ==
    /\ targetMessage # Undefined
    /\ calls.send = 1 /\ calls.complete = 1
    /\ message \notin dlq
    /\ result = "ok"

\* C2: a target that was in the dead-letter queue is, in every state of the
\* call (failed and crashed ones included), still in the dead-letter queue or
\* already in the origin entity; when the call stops between a successful
\* send and a successful complete it is in both.
C2_NeverLost ==
    (op = "resubmitMessage" /\ message \in dlq0) =>
        /\ message \in dlq \/ ContentInOrigin
        /\ ( /\ targetMessage # Undefined
             /\ Len(origin) = 1
             /\ calls.complete = 0 \/ pending = "CompleteFailed" )
           => (message \in dlq /\ ContentInOrigin)

C2_Witness ==
    /\ crashed /\ pc = "rs_complete"
    /\ message \in dlq0 /\ message \in dlq
    /\ ContentInOrigin

\* C3: a successful resubmit of a target that was in the dead-letter queue
\* leaves exactly one new message in the origin entity, carrying the target's
\* body (as normalised for sending), and no message with the target's
\* sequence number in the dead-letter queue.
C3_SuccessMovesTarget ==
    (op = "resubmitMessage" /\ result = "ok" /\ message \in dlq0) =>
        /\ Len(origin) = 1
        /\ origin[1].body = NormalizeBody(message.body)
        /\ ~TargetSeqInDlq

\* C4: every message sent to the origin entity carries x-resubmitted=true,
\* x-original-dead-letter-reason (the source's reason) and
\* x-original-message-id (the source's message id), next to every
\* application property of the source.
C4_SentPropertiesComplete ==
    op = "resubmitMessage" =>
        \A i \in DOMAIN origin :
            LET p == origin[i].applicationProperties
            IN /\ DOMAIN Spread(convertToPlainObject(message.applicationProperties))
                     \subseteq DOMAIN p
               /\ "x-resubmitted" \in DOMAIN p
               /\ p["x-resubmitted"] = Bool(TRUE)
               /\ "x-original-dead-letter-reason" \in DOMAIN p
               /\ p["x-original-dead-letter-reason"] = message.deadLetterReason
               /\ "x-original-message-id" \in DOMAIN p
               /\ p["x-original-message-id"] = Str(message.messageId)

\* the confirmation peek returned, and the target was not in it
PeekMissedTarget ==
    /\ calls.peek = 1
    /\ pending # "PeekFailed"
    /\ FindBySeq(peekedMessages, targetSequenceNumber) = Undefined

\* C5: when the confirmation peek lacks the target (an empty peek included)
\* the call issues no receive, send, complete or abandon, leaves both queues
\* as they were, and fails with a not-found error.
C5_PeekMissFailsNotFound ==
    (op = "resubmitMessage" /\ PeekMissedTarget) =>
        /\ calls.receive = 0 /\ calls.send = 0 /\ calls.complete = 0
        /\ calls.abandon = 0 /\ calls.receiveAndDelete = 0
        /\ dlq = dlq0 /\ origin = <<>>
        /\ pc = "done" => (result = "error" /\ error \in NotFoundErrors)

\* number of abandon calls made for sequence number n since the last receive
AbandonCount(n) == Cardinality({j \in DOMAIN abandoned : abandoned[j] = n})

\* C6: when the send of the lock path is issued, every message of the batch
\* other than the target has been abandoned exactly once, the target has not
\* been abandoned, and the target is still locked.
C6_OthersAbandonedTargetLocked ==
    (op = "resubmitMessage" /\ pc = "rs_send") =>
        /\ \E i \in DOMAIN messages : messages[i] = targetMessage
        /\ \A i \in DOMAIN messages :
              AbandonCount(messages[i].sequenceNumber)
                 = IF IsTarget(messages[i]) THEN 0 ELSE 1
        /\ Len(abandoned) = Len(messages) - 1
        /\ targetMessage.sequenceNumber \in locked
        /\ \A i \in DOMAIN messages :
              ~IsTarget(messages[i]) => messages[i].sequenceNumber \notin locked

C6_Witness ==
    /\ pc = "rs_send" /\ ~crashed
    /\ Len(messages) = 3
    /\ Len(abandoned) = 2
    /\ targetMessage.sequenceNumber \in locked

\* the lock-based receive returned, and its batch was empty
EmptyLockBatch ==
    /\ calls.receive = 1
    /\ pending # "ReceiveFailed"
    /\ Len(messages) = 0

\* C7: when the peek confirmed the target and the lock-based receive returned
\* an empty batch, the call raises no not-found error, goes on to the send,
\* and what it sends is the message built from the peeked snapshot.
C7_EmptyBatchUsesSnapshot ==
    (op = "resubmitMessage" /\ peekedTarget # Undefined /\ EmptyLockBatch) =>
        /\ pending \notin NotFoundErrors /\ error \notin NotFoundErrors
        /\ SeqStr(peekedTarget) = targetSequenceNumber
        /\ pc = "rs_peek_send" \/ calls.send = 1
        /\ calls.send = 1 =>
              \/ pending = "SendFailed" /\ origin = <<>>
              \/ origin = <<PeekSendMessage(peekedTarget)>>

C7_Witness ==
    /\ peekedTarget # Undefined /\ EmptyLockBatch
    /\ message \in dlq
    /\ origin = <<PeekSendMessage(peekedTarget)>>

\* the receiveAndDelete call returned a batch without a match for the target
DeleteUnconfirmed == wasDeleted = Bool(FALSE)

\* C8: on the peek path, when the removed batch holds no match for the
\* target (and nothing else went wrong), the caller gets an outcome that is
\* neither a clean success nor a failure, and the command does not announce
\* a plain success.
C8_PartialSuccessSurfaced ==
    (op = "resubmitMessage" /\ pc = "done" /\ DeleteUnconfirmed /\ error # "CloseFailed") =>
        /\ result \notin {"ok", "error"}
        /\ notification # "info:Message resubmitted successfully"

(***************************************************************************)
(* Properties of deleteMessage (checked under SpecDelete).                 *)
(***************************************************************************)
\* C9: deleteMessage completes at most one message, that message has the
\* target sequence number, every mismatch is abandoned before the next
\* receive, and a failed call has completed nothing.
C9_DeleteOnlyTarget ==
    op = "deleteMessage" =>
        /\ calls.complete <= 1
        /\ \A m \in dlq0 \ dlq : SeqStr(m) = targetSequenceNumber
        /\ pc = "dm_receive" => locked = {}
        /\ (pc = "done" /\ result = "error") => dlq = dlq0

\* the scan is over and never saw the target
ScanEndedWithoutTarget ==
    /\ calls.receive > 0
    /\ targetMessage = Undefined
    /\ pending \notin {"none", "ReceiveFailed", "AbandonFailed"}

\* C10: deleteMessage issues at most 1000 receives of one message each, and
\* a scan that ends (cap reached or empty receive) without the target makes
\* the call fail with the message-not-found error.
C10_BoundedScanNotFound ==
    op = "deleteMessage" =>
        /\ calls.receive <= maxMessages
        /\ Len(messages) <= 1
        /\ processedCount <= calls.receive
        /\ (pc = "done" /\ ScanEndedWithoutTarget) =>
              (result = "error" /\ error = "MessageNotFound")

\* errors raised by the broker or the connection rather than by the scan
BrokerFaults == {"ReceiveFailed", "AbandonFailed", "CompleteFailed", "CloseFailed"}

\* the call is over, no broker call failed and every receive returned a
\* message: the broker only chose which unlocked message to deliver
ScanServedThroughout ==
    /\ pc = "done" /\ calls.receive > 0
    /\ error \notin BrokerFaults
    /\ Len(messages) = 1

\* C11: when the target is present and unlocked in the dead-letter queue (at
\* most 1000 messages, no other consumer) and the broker serves every call,
\* deleteMessage ends having received and completed the target and returns
\* success, whichever unlocked message the broker delivers at each receive.
C11_PresentTargetDeleted ==
    (op = "deleteMessage" /\ message \in dlq0 /\ ScanServedThroughout) =>
        /\ result = "ok"
        /\ targetMessage = message
        /\ message \notin dlq

(***************************************************************************)
(* azureServiceBus.purgeDeadLetter and                                     *)
(* ServiceBusService.purgeDeadLetterQueue.                                 *)
(***************************************************************************)
InitPurge == InitCommon /\ op = "purgeDeadLetterQueue"

\* what the purge command shows once the service call has settled
PurgeNotification(res, deletedCount) ==
    IF res = "ok"
    THEN "info:Purged " \o ToString(deletedCount) \o " messages from dead-letter queue"
    ELSE "error:Failed to purge dead-letter queue"

\* the command's guard (!item), the modal confirmation, then
\* getClient/createReceiver for a queue
PurgeCommand ==
    /\ Running("idle") /\ op = "purgeDeadLetterQueue"
    /\ \E item \in {"none", "deadLetterQueue"}, confirmed \in BOOLEAN :
          /\ selection' = item
          /\ IF item = "none"
             THEN /\ notification' = "warn:Please select a dead-letter queue to purge"
                  /\ pc' = "done"
                  /\ open' = open
             ELSE IF ~confirmed
             THEN /\ pc' = "done"
                  /\ UNCHANGED <<notification, open>>
             ELSE /\ open' = {"receiver"}
                  /\ pc' = "pg_receive"
                  /\ UNCHANGED notification
    /\ UNCHANGED <<brokerVars, fixedVars, crashed, peekedMessages, peekedTarget,
                   messages, idx, targetMessage, processedCount, deletedMessages,
                   wasDeleted, pending, result, error, ghostVars>>

\* do { messages = await receiver.receiveMessages(100, ...) ... }
\* while (messages.length > 0): an empty batch ends the loop and the call
\* returns totalDeleted
PurgeReceive ==
    /\ Running("pg_receive")
    /\ calls' = Bump(calls, "receive")
    /\ \/ /\ Throw("ReceiveFailed", "pg_finally")
          /\ UNCHANGED <<messages, locked, idx>>
       \/ \E b \in ReceiveBatches(dlq, locked, receiveCount) :
             /\ messages' = b
             /\ locked' = locked \cup SeqsOf(b)
             /\ idx' = 1
             /\ pc' = IF Len(b) > 0 THEN "pg_complete" ELSE "pg_finally"
             /\ UNCHANGED pending
    /\ UNCHANGED <<dlq, origin, steadyVars, crashed, peekedMessages, peekedTarget,
                   targetMessage, processedCount, deletedMessages, wasDeleted, result,
                   error, open, notification, abandoned>>
    /\ UNCHANGED closeRejected

\* PurgeComplete as a single pass: the call returns after the first batch
PurgeComplete_singlePass ==
    /\ Running("pg_complete")
    /\ idx <= Len(messages)
    /\ calls' = Bump(calls, "complete")
    /\ \/ /\ Throw("CompleteFailed", "pg_finally")
          /\ UNCHANGED <<dlq, locked, totalDeleted, idx>>
       \/ /\ dlq' = dlq \ {messages[idx]}
          /\ locked' = locked \ {messages[idx].sequenceNumber}
          /\ totalDeleted' = totalDeleted + 1
          /\ idx' = idx + 1
          /\ pc' = IF idx + 1 <= Len(messages) THEN "pg_complete" ELSE "pg_finally"
          /\ UNCHANGED pending
    /\ UNCHANGED <<origin, op, message, dlq0, call, poolVars, sideVars, storeVars, selection, crashed, peekedMessages, peekedTarget,
                   messages, targetMessage, processedCount, deletedMessages, wasDeleted,
                   result, error, open, notification, abandoned>>
    /\ UNCHANGED closeRejected

\* one iteration of for (const message of messages):
\* await receiver.completeMessage(message); totalDeleted++
PurgeComplete ==
    /\ Running("pg_complete")
    /\ idx <= Len(messages)
    /\ calls' = Bump(calls, "complete")
    /\ \/ /\ Throw("CompleteFailed", "pg_finally")
          /\ UNCHANGED <<dlq, locked, totalDeleted, idx>>
       \/ /\ dlq' = dlq \ {messages[idx]}
          /\ locked' = locked \ {messages[idx].sequenceNumber}
          /\ totalDeleted' = totalDeleted + 1
          /\ idx' = idx + 1
          /\ pc' = IF idx + 1 <= Len(messages) THEN "pg_complete" ELSE "pg_receive"
          /\ UNCHANGED pending
    /\ UNCHANGED <<origin, op, message, dlq0, call, poolVars, sideVars, storeVars, selection, crashed, peekedMessages, peekedTarget,
                   messages, targetMessage, processedCount, deletedMessages, wasDeleted,
                   result, error, open, notification, abandoned>>
    /\ UNCHANGED closeRejected

\* finally: await receiver.close(); the call then returns the count or
\* rethrows
PurgeFinally ==
    /\ Running("pg_finally")
    /\ calls' = Bump(calls, "close")
    /\ \/ /\ Settle("CloseFailed", PurgeNotification(Outcome("CloseFailed"), totalDeleted))
          /\ closeRejected' = closeRejected \cup {"receiver"}
          /\ UNCHANGED <<open, locked>>
       \/ /\ open' = open \ {"receiver"}
          /\ locked' = {}
          /\ Settle(pending, PurgeNotification(Outcome(pending), totalDeleted))
          /\ UNCHANGED closeRejected
    /\ UNCHANGED <<dlq, origin, steadyVars, crashed, peekedMessages, peekedTarget,
                   messages, idx, targetMessage, processedCount, deletedMessages,
                   wasDeleted, pending, abandoned>>

NextPurge ==
    \/ PurgeCommand
    \/ PurgeReceive
    \/ PurgeComplete
    \/ PurgeFinally
    \/ Crash

SpecPurge == InitPurge /\ [][NextPurge]_vars

(***************************************************************************)
(* Properties of purgeDeadLetterQueue (checked under SpecPurge).           *)
(***************************************************************************)
\* the messages removed from the dead-letter queue since the command started
Removed == dlq0 \ dlq

\* C12: the count purgeDeadLetterQueue returns (and the command shows) is the
\* number of completeMessage calls that succeeded during the call, and the
\* call returns only after a receive that returned an empty batch.
C12_CountIsCompletions ==
    op = "purgeDeadLetterQueue" =>
        /\ totalDeleted = Cardinality(Removed)
        /\ result = "ok" =>
              /\ calls.complete = totalDeleted
              /\ calls.receive > 0 /\ Len(messages) = 0
              /\ notification = PurgeNotification("ok", Cardinality(Removed))

C12_Witness ==
    /\ op = "purgeDeadLetterQueue" /\ result = "ok"
    /\ totalDeleted = 3 /\ calls.receive = 3
    /\ notification = "info:Purged 3 messages from dead-letter queue"

\* C13: once purgeDeadLetterQueue has returned a count, the dead-letter
\* queue is empty (a peek returns zero messages): no message that was in it
\* when the purge started remains.
C13_PurgedQueueEmpty ==
    (op = "purgeDeadLetterQueue" /\ result = "ok") =>
        /\ dlq = {}
        /\ \A p \in PeekBatches(dlq, peekCount) : Len(p) = 0

(***************************************************************************)
(* Properties of the resources a call creates.                             *)
(***************************************************************************)
\* C14: when resubmitMessage returns or throws, every sender and receiver it
\* created has been closed, whatever step failed; the only resource that may
\* still be open is one whose own close() rejected, so a failing close of
\* one resource never leaves another one open.
C14_AllClosedAtReturn ==
    (op = "resubmitMessage" /\ pc = "done") => open \subseteq closeRejected

\* this step closes the peekLock receiver
ReceiverCloses == "receiver" \in open /\ "receiver" \notin open'

\* no message of the current batch was abandoned twice, and an abandoned
\* message is no longer locked
SettledAtMostOnce ==
    \A n \in SeqsOf(messages) :
        /\ AbandonCount(n) <= 1
        /\ AbandonCount(n) = 1 => n \notin locked

\* the lock whose own abandon or complete call rejected
SettlementRejected ==
    CASE pending = "AbandonFailed" -> {messages[idx].sequenceNumber}
      [] pending = "CompleteFailed" -> {targetMessage.sequenceNumber}
      [] OTHER -> {}

\* C15: every message resubmitMessage received under a lock is released by
\* exactly one complete or abandon on the receiver that issued it before
\* that receiver is closed: no lock is settled twice, and when the receiver
\* is closed no lock is outstanding (other than one whose own settlement
\* call rejected), also after a failed send or settlement.
C15_LocksSettledBeforeClose ==
    [][op = "resubmitMessage" =>
          /\ SettledAtMostOnce
          /\ ReceiverCloses => locked \subseteq SettlementRejected]_vars

(***************************************************************************)
(* Two resubmitMessage calls in flight for the same target.  Each caller   *)
(* runs the steps of resubmitMessage on its own sender and receivers; the  *)
(* event loop interleaves the callers at their awaits.                     *)
(***************************************************************************)
Callers == {1, 2}

\* the state of the single-caller operations, idle while two callers race
soloVars == <<op, message, dlq0, totalDeleted, pc, crashed, peekedMessages, peekedTarget,
              messages, idx, targetMessage, processedCount, deletedMessages, wasDeleted,
              pending, result, error, open, notification, ghostVars, poolVars,
              sideVars, storeVars, selection>>

\* a call that has not started
IdleCall ==
    [pc |-> "idle", peekedTarget |-> Undefined, messages |-> <<>>, idx |-> 1,
     targetMessage |-> Undefined, locks |-> {}, pending |-> "none",
     result |-> "pending", error |-> "none", open |-> {}]

\* the dead-letter queue holds the target and at most one other message
InitConcurrent ==
    /\ message \in Catalogue
    /\ dlq \in {{message, m} : m \in Catalogue}
    /\ locked = {}
    /\ origin = <<>>
    /\ dlq0 = dlq
    /\ op = "resubmitMessage"
    /\ call = [c \in Callers |-> IdleCall]
    /\ pc = "idle"
    /\ crashed = FALSE
    /\ peekedMessages = <<>>
    /\ peekedTarget = Undefined
    /\ messages = <<>>
    /\ idx = 1
    /\ targetMessage = Undefined
    /\ processedCount = 0
    /\ totalDeleted = 0
    /\ deletedMessages = <<>>
    /\ wasDeleted = Undefined
    /\ pending = "none"
    /\ result = "pending"
    /\ error = "none"
    /\ open = {}
    /\ notification = "none"
    /\ calls = NoCalls
    /\ abandoned = <<>>
    /\ closeRejected = {}
    /\ selection = NoSelection
    /\ PoolIdle
    /\ SideIdle

At(c, label) == call[c].pc = label

\* caller c's call moves to the state r
Becomes(c, r) == call' = [call EXCEPT ![c] = r]

\* an exception thrown inside c's try block travels to its finally block
Thrown(c, err) == [call[c] EXCEPT !.pending = err, !.pc = "rs_finally"]

\* c's call settles: resolved, or rejected with err
Settled(c, err) ==
    [call[c] EXCEPT !.result = Outcome(err), !.error = err, !.pc = "done"]

\* getClient/createSender/createReceiver for a queue
ConcurrentStart(c) ==
    /\ At(c, "idle")
    /\ Becomes(c, [call[c] EXCEPT !.open = {"sender", "receiver"}, !.pc = "rs_peek"])
    /\ UNCHANGED <<brokerVars, soloVars>>

\* confirmation peek and the two not-found exits
ConcurrentPeek(c) ==
    /\ At(c, "rs_peek")
    /\ \/ Becomes(c, Thrown(c, "PeekFailed"))
       \/ \E p \in PeekBatches(dlq, peekCount) :
             IF Len(p) = 0
             THEN Becomes(c, Thrown(c, "NoMessagesInDlq"))
             ELSE IF FindBySeq(p, targetSequenceNumber) = Undefined
             THEN Becomes(c, Thrown(c, "TargetNotFound"))
             ELSE Becomes(c, [call[c] EXCEPT
                                 !.peekedTarget = FindBySeq(p, targetSequenceNumber),
                                 !.pc = "rs_receive"])
    /\ UNCHANGED <<brokerVars, soloVars>>

\* receiver.receiveMessages(100, ...) in peekLock mode: only messages that
\* no receiver holds locked are handed out
ConcurrentLockReceive(c) ==
    /\ At(c, "rs_receive")
    /\ \/ /\ Becomes(c, Thrown(c, "ReceiveFailed"))
          /\ UNCHANGED locked
       \/ \E b \in ReceiveBatches(dlq, locked, receiveCount) :
             /\ locked' = locked \cup SeqsOf(b)
             /\ Becomes(c, [call[c] EXCEPT
                               !.messages = b, !.idx = 1, !.locks = SeqsOf(b),
                               !.pc = IF Len(b) > 0 THEN "rs_loop"
                                      ELSE AfterLoop(call[c].targetMessage)])
    /\ UNCHANGED <<dlq, origin, soloVars>>

\* one iteration of the for-loop: bind the target or abandon the message
ConcurrentLoopStep(c) ==
    /\ At(c, "rs_loop")
    /\ call[c].idx <= Len(call[c].messages)
    /\ LET msg == call[c].messages[call[c].idx]
           next(target) == IF call[c].idx + 1 <= Len(call[c].messages)
                           THEN "rs_loop" ELSE AfterLoop(target)
       IN IF IsTarget(msg)
          THEN /\ Becomes(c, [call[c] EXCEPT !.targetMessage = msg, !.idx = @ + 1,
                                             !.pc = next(msg)])
               /\ UNCHANGED locked
          ELSE \/ /\ Becomes(c, Thrown(c, "AbandonFailed"))
                  /\ UNCHANGED locked
               \/ /\ locked' = locked \ {msg.sequenceNumber}
                  /\ Becomes(c, [call[c] EXCEPT !.locks = @ \ {msg.sequenceNumber},
                                                !.idx = @ + 1,
                                                !.pc = next(call[c].targetMessage)])
    /\ UNCHANGED <<dlq, origin, soloVars>>

\* peek path: send the message rebuilt from the peeked snapshot
ConcurrentPeekSend(c) ==
    /\ At(c, "rs_peek_send")
    /\ \/ /\ Becomes(c, Thrown(c, "SendFailed"))
          /\ UNCHANGED origin
       \/ /\ origin' = Append(origin, PeekSendMessage(call[c].peekedTarget))
          /\ Becomes(c, [call[c] EXCEPT !.pc = "rs_close_receiver"])
    /\ UNCHANGED <<dlq, locked, soloVars>>

\* peek path: close the peekLock receiver, create the receiveAndDelete one
ConcurrentSwitchReceiver(c) ==
    /\ At(c, "rs_close_receiver")
    /\ \/ /\ Becomes(c, Thrown(c, "CloseFailed"))
          /\ UNCHANGED locked
       \/ /\ locked' = locked \ call[c].locks
          /\ Becomes(c, [call[c] EXCEPT
                            !.open = (@ \ {"receiver"}) \cup {"deleteReceiver"},
                            !.locks = {}, !.pc = "rs_delete"])
    /\ UNCHANGED <<dlq, origin, soloVars>>

\* peek path: deleteReceiver.receiveMessages(100, ...) removes what it returns
ConcurrentReceiveAndDelete(c) ==
    /\ At(c, "rs_delete")
    /\ \/ /\ Becomes(c, [call[c] EXCEPT !.pending = "ReceiveAndDeleteFailed",
                                        !.pc = "rs_close_delete"])
          /\ UNCHANGED dlq
       \/ \E b \in ReceiveBatches(dlq, locked, receiveCount) :
             /\ dlq' = dlq \ Range(b)
             /\ Becomes(c, [call[c] EXCEPT !.pc = "rs_close_delete"])
    /\ UNCHANGED <<locked, origin, soloVars>>

\* peek path: the inner finally closes the receiveAndDelete receiver
ConcurrentCloseDeleteReceiver(c) ==
    /\ At(c, "rs_close_delete")
    /\ \/ Becomes(c, [call[c] EXCEPT !.pending = "CloseFailed", !.pc = "rs_finally"])
       \/ Becomes(c, [call[c] EXCEPT !.open = @ \ {"deleteReceiver"}, !.pc = "rs_finally"])
    /\ UNCHANGED <<brokerVars, soloVars>>

\* lock path: send the message rebuilt from the locked target
ConcurrentLockSend(c) ==
    /\ At(c, "rs_send")
    /\ \/ /\ Becomes(c, Thrown(c, "SendFailed"))
          /\ UNCHANGED origin
       \/ /\ origin' = Append(origin, LockSendMessage(call[c].targetMessage))
          /\ Becomes(c, [call[c] EXCEPT !.pc = "rs_complete"])
    /\ UNCHANGED <<dlq, locked, soloVars>>

\* lock path: receiver.completeMessage(targetMessage)
ConcurrentComplete(c) ==
    /\ At(c, "rs_complete")
    /\ \/ /\ Becomes(c, Thrown(c, "CompleteFailed"))
          /\ UNCHANGED <<dlq, locked>>
       \/ /\ dlq' = dlq \ {call[c].targetMessage}
          /\ locked' = locked \ {call[c].targetMessage.sequenceNumber}
          /\ Becomes(c, [call[c] EXCEPT
                            !.locks = @ \ {call[c].targetMessage.sequenceNumber},
                            !.pc = "rs_finally"])
    /\ UNCHANGED <<origin, soloVars>>

\* finally: await sender.close()
ConcurrentCloseSender(c) ==
    /\ At(c, "rs_finally")
    /\ \/ Becomes(c, Settled(c, "CloseFailed"))
       \/ Becomes(c, [call[c] EXCEPT !.open = @ \ {"sender"},
                                     !.pc = "rs_finally_receiver"])
    /\ UNCHANGED <<brokerVars, soloVars>>

\* finally: await receiver.close(); the call then returns or rethrows
ConcurrentCloseReceiver(c) ==
    /\ At(c, "rs_finally_receiver")
    /\ \/ /\ "receiver" \in call[c].open
          /\ Becomes(c, Settled(c, "CloseFailed"))
          /\ UNCHANGED locked
       \/ /\ locked' = locked \ call[c].locks
          /\ Becomes(c, [Settled(c, call[c].pending) EXCEPT
                            !.open = @ \ {"receiver"}, !.locks = {}])
    /\ UNCHANGED <<dlq, origin, soloVars>>

NextConcurrent ==
    \E c \in Callers :
        \/ ConcurrentStart(c)
        \/ ConcurrentPeek(c)
        \/ ConcurrentLockReceive(c)
        \/ ConcurrentLoopStep(c)
        \/ ConcurrentPeekSend(c)
        \/ ConcurrentSwitchReceiver(c)
        \/ ConcurrentReceiveAndDelete(c)
        \/ ConcurrentCloseDeleteReceiver(c)
        \/ ConcurrentLockSend(c)
        \/ ConcurrentComplete(c)
        \/ ConcurrentCloseSender(c)
        \/ ConcurrentCloseReceiver(c)

SpecConcurrent == InitConcurrent /\ [][NextConcurrent]_vars

(***************************************************************************)
(* Properties of two concurrent resubmitMessage calls (SpecConcurrent).    *)
(***************************************************************************)
\* both calls have returned or thrown
AllSettled == \A c \in Callers : call[c].pc = "done"

\* every message in the origin entity carries the target's content
OriginHoldsOnlyTarget ==
    \A i \in DOMAIN origin : origin[i].body = NormalizeBody(message.body)

\* every message that was in the dead-letter queue is still there, or is
\* the target and has been sent to the origin entity
NothingLost ==
    \A m \in dlq0 : m \in dlq \/ (m = message /\ ContentInOrigin)

\* C16: two concurrent resubmitMessage calls on the same target never block
\* each other (while one is unsettled a step is possible) and both settle;
\* afterwards the origin entity holds the target's content once or twice if
\* a call succeeded and nothing else, and no message of the dead-letter
\* queue is lost.
C16_ConcurrentResubmitSafe ==
    DOMAIN call = Callers =>
        /\ ~AllSettled => ENABLED NextConcurrent
        /\ AllSettled =>
              /\ OriginHoldsOnlyTarget
              /\ Len(origin) <= 2
              /\ (\E c \in Callers : call[c].result = "ok") => Len(origin) >= 1
              /\ NothingLost

(***************************************************************************)
(* The client pool: ServiceBusTreeProvider.addNamespace, the add-namespace *)
(* command, ServiceBusService.registerConnectionString, getClient,         *)
(* getAdminClient and dispose.                                             *)
(***************************************************************************)
\* everything but the pool
machineVars == <<brokerVars, op, message, dlq0, totalDeleted, call, pc, crashed,
                peekedMessages, peekedTarget, messages, idx, targetMessage,
                processedCount, deletedMessages, wasDeleted, pending, result, error,
                open, notification, ghostVars, sideVars, selection>>
engineVars == <<machineVars, storeVars>>

\* no message operation in progress
CallIdle ==
    /\ message = ReceivedMessage(1)
    /\ totalDeleted = 0 /\ call = <<>>
    /\ pc = "idle" /\ crashed = FALSE
    /\ peekedMessages = <<>> /\ peekedTarget = Undefined
    /\ messages = <<>> /\ idx = 1
    /\ targetMessage = Undefined /\ processedCount = 0
    /\ deletedMessages = <<>> /\ wasDeleted = Undefined
    /\ pending = "none" /\ result = "pending" /\ error = "none"
    /\ open = {} /\ notification = "none"
    /\ calls = NoCalls /\ abandoned = <<>> /\ closeRejected = {}
    /\ selection = NoSelection

\* no message operation in progress and nothing in the broker
EngineIdle ==
    /\ dlq = {} /\ locked = {} /\ origin = <<>> /\ dlq0 = {}
    /\ CallIdle

InitPool == PoolIdle /\ EngineIdle /\ SideIdle /\ op = "pool"

\* addNamespace kept as typed, without the suffix test
normalizedNamespace_asTyped(namespace) == namespace

\* namespace.includes('.servicebus.windows.net') ? namespace
\*                                                : `${namespace}.servicebus.windows.net`
normalizedNamespace(namespace) ==
    IF IncludesSbDomain(namespace) THEN namespace ELSE Namespace(namespace.name, SbDomain)

\* the same expression inside getClient and getAdminClient
fullyQualifiedNamespace(namespace) ==
    IF IncludesSbDomain(namespace) THEN namespace ELSE Namespace(namespace.name, SbDomain)

\* new ServiceBusClient(connectionString) or
\* new ServiceBusClient(fullyQualifiedNamespace, this.credential)
NewClient(cache, namespace) ==
    IF namespace \in DOMAIN connectionStrings
    THEN [id |-> constructed + 1, cache |-> cache, key |-> namespace,
          auth |-> "connectionString", arg |-> connectionStrings[namespace]]
    ELSE [id |-> constructed + 1, cache |-> cache, key |-> namespace,
          auth |-> "azureAd", arg |-> fullyQualifiedNamespace(namespace)]

\* ghost bookkeeping of a lookup that returned client for (cache, namespace)
Handed(cache, namespace, client, isNew) ==
    /\ returned' = [call |-> cache]
    /\ served' = [served EXCEPT ![cache, namespace] = @ \cup {client.id}]
    /\ IF isNew
       THEN /\ constructed' = constructed + 1
            /\ closed' = Append(closed, 0)
            /\ built' = [built EXCEPT ![cache, namespace] = @ + 1]
       ELSE UNCHANGED <<constructed, closed, built>>

\* getClient that constructs a client for every lookup and never stores it
GetClient_noCache(namespace) ==
    /\ constructed < MaxClients
    /\ Handed("clients", namespace, NewClient("clients", namespace), TRUE)
    /\ UNCHANGED <<clients, namespaces, connectionStrings, adminClients, dispose,
                   disposeCalls, typed, engineVars>>

\* getClient(namespace), as called first by every message operation
GetClient(namespace) ==
    /\ IF namespace \in DOMAIN clients
       THEN /\ Handed("clients", namespace, clients[namespace], FALSE)
            /\ UNCHANGED clients
       ELSE /\ constructed < MaxClients
            /\ Handed("clients", namespace, NewClient("clients", namespace), TRUE)
            /\ clients' = MapSet(clients, namespace, NewClient("clients", namespace))
    /\ UNCHANGED <<namespaces, connectionStrings, adminClients, dispose, disposeCalls,
                   typed, engineVars>>

\* getAdminClient(namespace), as called first by listQueues, listTopics, ...
GetAdminClient(namespace) ==
    /\ IF namespace \in DOMAIN adminClients
       THEN /\ Handed("adminClients", namespace, adminClients[namespace], FALSE)
            /\ UNCHANGED adminClients
       ELSE /\ constructed < MaxClients
            /\ Handed("adminClients", namespace, NewClient("adminClients", namespace), TRUE)
            /\ adminClients' = MapSet(adminClients, namespace,
                                      NewClient("adminClients", namespace))
    /\ UNCHANGED <<namespaces, connectionStrings, clients, dispose, disposeCalls,
                   typed, engineVars>>

\* the ghost counters of one key start again
Evicted(namespace) ==
    /\ built' = [c \in Caches, k \in Keys |-> IF k = namespace THEN 0 ELSE built[c, k]]
    /\ served' = [c \in Caches, k \in Keys |-> IF k = namespace THEN {} ELSE served[c, k]]

\* registerConnectionString that keeps the cached clients
registerConnectionString_noEvict(connectionString) ==
    LET namespace == getNamespaceFromConnectionString(connectionString)
    IN /\ IF namespace # EmptyString
          THEN /\ connectionStrings' = MapSet(connectionStrings, namespace, connectionString)
               /\ UNCHANGED <<clients, adminClients, built, served>>
          ELSE UNCHANGED <<connectionStrings, clients, adminClients, built, served>>
       /\ returned' = [call |-> "registerConnectionString", arg |-> connectionString,
                       value |-> namespace]

\* registerConnectionString(connectionString)
registerConnectionString(connectionString) ==
    LET namespace == getNamespaceFromConnectionString(connectionString)
    IN /\ IF namespace # EmptyString
          THEN /\ connectionStrings' = MapSet(connectionStrings, namespace, connectionString)
               /\ clients' = MapDelete(clients, namespace)
               /\ adminClients' = MapDelete(adminClients, namespace)
               /\ Evicted(namespace)
          ELSE UNCHANGED <<connectionStrings, clients, adminClients, built, served>>
       /\ returned' = [call |-> "registerConnectionString", arg |-> connectionString,
                       value |-> namespace]

\* azureServiceBus.addNamespace with a connection string: register it and,
\* when a namespace was parsed, store the secret and then
\* treeProvider.addNamespace(namespace); a store that rejects ends the
\* command with an error message before the tree is touched
AddNamespaceConnectionString ==
    \E connectionString \in TypedConnectionStrings, stored \in BOOLEAN :
        LET namespace == getNamespaceFromConnectionString(connectionString)
        IN /\ registerConnectionString(connectionString)
           /\ IF namespace # EmptyString /\ stored
              THEN /\ secrets' = MapSet(secrets, namespace, connectionString)
                   /\ namespaces' = namespaces \cup {normalizedNamespace(namespace)}
                   /\ addedWith' = addedWith \cup {normalizedNamespace(namespace)}
              ELSE UNCHANGED <<namespaces, secrets, addedWith>>
           /\ UNCHANGED <<dispose, constructed, closed, disposeCalls, typed, machineVars>>

\* azureServiceBus.addNamespace with Azure AD: treeProvider.addNamespace(text)
AddNamespaceAzureAd ==
    \E namespace \in TypedNamespaces :
        /\ namespaces' = namespaces \cup {normalizedNamespace(namespace)}
        /\ typed' = typed \cup {namespace}
        /\ returned' = [call |-> "addNamespace"]
        /\ UNCHANGED <<connectionStrings, clients, adminClients, dispose,
                       constructed, built, served, closed, disposeCalls, engineVars>>

\* a message operation on a tree item: it starts with getClient(item.namespace)
TreeOperation == \E namespace \in namespaces : GetClient(namespace)

\* a listing on a tree item: it starts with getAdminClient(item.namespace)
TreeListing == \E namespace \in namespaces : GetAdminClient(namespace)

\* the cached clients the for-of over this.clients.values() has yet to
\* reach, given the one it is at (Map iteration follows insertion order)
Unvisited(after) == {clients[k].id : k \in {x \in DOMAIN clients : clients[x].id > after}}

MinOf(S) == CHOOSE x \in S : \A y \in S : x <= y

\* the loop is over: this.clients.clear(); this.adminClients.clear()
Cleared(closes) ==
    /\ clients' = EmptyMap
    /\ adminClients' = EmptyMap
    /\ built' = [c \in Caches, k \in Keys |-> 0]
    /\ served' = [c \in Caches, k \in Keys |-> {}]
    /\ dispose' = [pc |-> "idle", awaiting |-> 0, closes |-> closes, outcome |-> "ok"]

\* deactivate: dispose() runs up to its first await (the close of the first
\* cached client), or to its end when nothing is cached
DisposeCall ==
    /\ dispose.pc = "idle"
    /\ disposeCalls < MaxDisposeCalls
    /\ disposeCalls' = disposeCalls + 1
    /\ IF Unvisited(0) = {}
       THEN Cleared(0)
       ELSE /\ dispose' = [pc |-> "closing", awaiting |-> MinOf(Unvisited(0)),
                           closes |-> 1, outcome |-> "pending"]
            /\ UNCHANGED <<clients, adminClients, built, served>>
    /\ returned' = [call |-> "dispose"]
    /\ UNCHANGED <<namespaces, connectionStrings, constructed, closed, typed,
                   engineVars>>

\* the awaited client.close() settles: a rejection leaves dispose at once;
\* otherwise the loop goes to the next cached client or ends
DisposeCloseSettles ==
    /\ dispose.pc = "closing"
    /\ \/ /\ dispose' = [dispose EXCEPT !.pc = "idle", !.awaiting = 0,
                                        !.outcome = "rejected"]
          /\ UNCHANGED <<clients, adminClients, built, served, closed>>
       \/ /\ closed' = [closed EXCEPT ![dispose.awaiting] = @ + 1]
          /\ IF Unvisited(dispose.awaiting) = {}
             THEN Cleared(dispose.closes)
             ELSE /\ dispose' = [dispose EXCEPT
                                    !.awaiting = MinOf(Unvisited(dispose.awaiting)),
                                    !.closes = @ + 1]
                  /\ UNCHANGED <<clients, adminClients, built, served>>
    /\ returned' = [call |-> "dispose"]
    /\ UNCHANGED <<namespaces, connectionStrings, constructed, disposeCalls,
                   typed, engineVars>>

\* adding namespaces and using them
NextPool ==
    \/ AddNamespaceConnectionString
    \/ AddNamespaceAzureAd
    \/ TreeOperation
    \/ TreeListing

SpecPool == InitPool /\ [][NextPool]_vars

\* loadNamespaces: the extension starts with the saved (normalised) namespaces
InitDispose ==
    /\ namespaces \in SUBSET {Namespace(n, SbDomain) : n \in Names}
    /\ ServiceIdle
    /\ EngineIdle
    /\ SideIdle
    /\ op = "pool"

\* using the namespaces, then deactivating
NextDispose ==
    \/ TreeOperation
    \/ TreeListing
    \/ DisposeCall
    \/ DisposeCloseSettles

SpecDispose == InitDispose /\ [][NextDispose]_vars

(***************************************************************************)
(* Properties of the client pool (SpecPool, SpecDispose).                  *)
(***************************************************************************)
\* the canonical spelling of the namespace called name
Canonical(name) == Namespace(name, SbDomain)

\* the keys of cache m that spell the namespace called name
KeysFor(m, name) == {k \in DOMAIN m : k.name = name}

\* a client cached under key k was built from the connection string
\* registered for k's namespace, when there is one
UsesRegistered(m, k) ==
    Canonical(k.name) \in DOMAIN connectionStrings =>
        /\ m[k].auth = "connectionString"
        /\ m[k].arg = connectionStrings[Canonical(k.name)]

\* C17: the short name and the suffixed name of one namespace end up under
\* one cache key: whatever spellings were entered and looked up, the client
\* cache and the admin-client cache each hold at most one entry per
\* namespace, and that entry was built from the connection string registered
\* for the namespace.
C17_SpellingsShareOneKey ==
    \A n \in Names :
        /\ Cardinality(KeysFor(clients, n)) <= 1
        /\ Cardinality(KeysFor(adminClients, n)) <= 1
        /\ \A k \in KeysFor(clients, n) : UsesRegistered(clients, k)
        /\ \A k \in KeysFor(adminClients, n) : UsesRegistered(adminClients, k)

C17_Witness ==
    /\ {Namespace("x", ""), Canonical("x")} \subseteq typed
    /\ Canonical("x") \in DOMAIN connectionStrings
    /\ KeysFor(clients, "x") = {Canonical("x")}
    /\ KeysFor(adminClients, "x") = {Canonical("x")}
    /\ clients[Canonical("x")].auth = "connectionString"

\* C18: between two evictions (registerConnectionString for the namespace,
\* dispose) at most one ServiceBusClient and at most one
\* ServiceBusAdministrationClient are constructed per namespace, and every
\* lookup, in whatever order the operations interleave, is handed that one
\* cached instance.
C18_OneInstancePerNamespace ==
    \A k \in Keys :
        /\ built["clients", k] <= 1
        /\ built["adminClients", k] <= 1
        /\ served["clients", k] # {} =>
              (k \in DOMAIN clients /\ served["clients", k] = {clients[k].id})
        /\ served["adminClients", k] # {} =>
              (k \in DOMAIN adminClients /\ served["adminClients", k] = {adminClients[k].id})

C18_Witness ==
    /\ op = "pool"
    /\ returned.call = "clients"
    /\ Canonical("x") \in DOMAIN clients /\ Canonical("x") \in DOMAIN adminClients
    /\ clients[Canonical("x")].id = 1
    /\ adminClients[Canonical("x")].id = 2
    /\ constructed = 2

\* every cached client of a namespace with a registered connection string
\* was built from that connection string
CachedClientsUseCurrentSecret ==
    /\ \A k \in DOMAIN clients : UsesRegistered(clients, k)
    /\ \A k \in DOMAIN adminClients : UsesRegistered(adminClients, k)

\* C19: right after registerConnectionString parsed a namespace, neither
\* cache holds a client for it and the map holds the new connection string,
\* so that any client cached later is built from it; when no namespace can
\* be parsed the empty string is returned and the map and both caches are
\* unchanged.
C19_RegisterEvicts ==
    [][/\ returned'.call = "registerConnectionString" =>
             IF IncludesSbDomain(returned'.arg.host)
             THEN /\ returned'.value = Canonical(returned'.arg.host.name)
                  /\ returned'.value \notin DOMAIN clients'
                  /\ returned'.value \notin DOMAIN adminClients'
                  /\ connectionStrings'[returned'.value] = returned'.arg
             ELSE /\ returned'.value = EmptyString
                  /\ UNCHANGED <<connectionStrings, clients, adminClients>>
       /\ CachedClientsUseCurrentSecret']_vars

C19_Witness ==
    /\ op = "pool"
    /\ namespaces = {Canonical("x")}
    /\ Canonical("x") \in DOMAIN clients
    /\ clients[Canonical("x")].id >= 2
    /\ clients[Canonical("x")].arg = [host |-> Canonical("x"), key |-> "k2"]
    /\ returned.call = "clients"

\* this step is the one in which a dispose() call returns or throws
DisposeSettles ==
    /\ dispose'.pc = "idle"
    /\ dispose.pc = "closing" \/ disposeCalls' # disposeCalls

\* C20: when a dispose() call is over, every connection that was cached has
\* been closed and both caches are empty; a call on an empty cache performs
\* no close and succeeds; and over any number of calls no client is closed
\* more than once.
C20_DisposeClosesAllOnce ==
    [][DisposeSettles =>
          /\ clients' = EmptyMap /\ adminClients' = EmptyMap
          /\ \A k \in DOMAIN clients : closed'[clients[k].id] = 1
          /\ \A id \in DOMAIN closed' : closed'[id] <= 1
          /\ (DOMAIN clients = {} /\ dispose.pc = "idle") =>
                (dispose'.outcome = "ok" /\ dispose'.closes = 0 /\ closed' = closed)]_vars

(***************************************************************************)
(* The REST fallback: getAuthHeader, generateSasToken, peekLockMessageRest,*)
(* deleteMessageRest and unlockMessageRest, run against the broker's HTTP  *)
(* surface.  A peek-lock hands out a location (a message and a lock        *)
(* token); a DELETE or a PUT at a location is honoured while that lock is  *)
(* held.  Any request may be answered with a failure status, and fetch     *)
(* itself may reject.                                                      *)
(***************************************************************************)
\* REST helper calls made in one run
MaxRestCalls == 3

\* validityInSeconds: number = 3600
validityInSeconds == 3600

\* parts[part] of the parsed connection string, '' when the part is missing
PartOf(connectionString, part) ==
    IF part \in DOMAIN connectionString THEN connectionString[part] ELSE ""

\* connection strings that can be registered for the REST calls: the
\* Endpoint host x with a SharedAccessKeyName, a SharedAccessKey or both
\* (namespace y stays on Azure AD)
SasConnectionStrings ==
    {cs \in {[host |-> Namespace("x", SbDomain), keyName |-> kn, key |-> k] :
                kn \in {"", "policy"}, k \in {"", "k1"}} :
        cs.keyName # "" \/ cs.key # ""}

\* the namespaces the REST helpers are called with
RestNamespaces == {Namespace(n, SbDomain) : n \in Names}

\* 'https://servicebus.azure.net/.default'
TokenScope == "https://servicebus.azure.net/.default"

\* what this.credential.getToken(scope) may come to
TokenOutcomes == {[kind |-> "token", token |-> "t1"], [kind |-> "null"], [kind |-> "rejected"]}

\* an Error with its message; status and text are what the message embeds
Error(msg, status, text) == [message |-> msg, status |-> status, text |-> text]

\* how an async call settles
Resolves(value) == [kind |-> "returned", value |-> value]
Rejects(err) == [kind |-> "thrown", error |-> err]
NoOutcome == [kind |-> "none"]

\* generateSasToken that does not test the parsed parts
generateSasToken_noCheck(resourceUri, connectionString) ==
    Resolves([scheme |-> "SharedAccessSignature", sr |-> resourceUri,
              sig |-> [hmac |-> PartOf(connectionString, "key"), text |-> resourceUri],
              se |-> validityInSeconds, skn |-> PartOf(connectionString, "keyName")])

\* generateSasToken(resourceUri, connectionString): sr is the encoded URI,
\* sig the HMAC of the string to sign under the key, se the expiry counted
\* from now
generateSasToken(resourceUri, connectionString) ==
    LET sharedAccessKeyName == PartOf(connectionString, "keyName")
        sharedAccessKey == PartOf(connectionString, "key")
    IN IF sharedAccessKeyName = "" \/ sharedAccessKey = ""
       THEN Rejects(Error("Connection string must contain SharedAccessKeyName and SharedAccessKey",
                          0, ""))
       ELSE Resolves([scheme |-> "SharedAccessSignature", sr |-> resourceUri,
                      sig |-> [hmac |-> sharedAccessKey, text |-> resourceUri],
                      se |-> validityInSeconds, skn |-> sharedAccessKeyName])

\* getAuthHeader(namespace), given what the token provider answers when asked
getAuthHeader(namespace, provided) ==
    IF namespace \in DOMAIN connectionStrings
    THEN generateSasToken(namespace, connectionStrings[namespace])
    ELSE CASE provided.kind = "token" ->
                  Resolves([scheme |-> "Bearer", token |-> provided.token])
           [] provided.kind = "null" ->
                  Rejects(Error("Failed to get authentication token", 0, ""))
           [] OTHER -> Rejects(Error("CredentialUnavailableError", 0, ""))

\* the scopes getAuthHeader asks a token for
ScopesAsked(namespace) ==
    IF namespace \in DOMAIN connectionStrings THEN <<>> ELSE <<TokenScope>>

NoLocation == [seq |-> 0, token |-> 0]
NoResponse == [status |-> 0, statusText |-> "", location |-> NoLocation, text |-> ""]

\* a response without a Location header
Response(status, statusText, text) ==
    [status |-> status, statusText |-> statusText, location |-> NoLocation, text |-> text]

\* response.ok
Ok(response) == response.status >= 200 /\ response.status <= 299

\* failure answers the broker may give to any request
FaultResponses ==
    {Response(401, "Unauthorized", "token rejected"),
     Response(500, "Internal Server Error", "try again")}

\* the messages a peek-lock can lock: present and not locked
RestAvailable == {m \in dlq : m.sequenceNumber \notin DOMAIN rest.locks}

\* the head of the dead-letter queue as the broker serves it
RestHead ==
    CHOOSE m \in RestAvailable : \A o \in RestAvailable : m.sequenceNumber <= o.sequenceNumber

\* answers to POST {dlqPath}/messages/head
PeekLockResponses ==
    FaultResponses \cup
    (IF RestAvailable = {}
     THEN {Response(204, "No Content", "")}
     ELSE {[status |-> 201, statusText |-> "Created",
            location |-> [seq |-> RestHead.sequenceNumber, token |-> rest.issued + 1],
            text |-> RestHead.messageId]})

\* the lock named by the location is held on a message still in the queue
LockHeld(location) ==
    /\ location.seq \in DOMAIN rest.locks
    /\ rest.locks[location.seq] = location.token
    /\ \E m \in dlq : m.sequenceNumber = location.seq

\* answers to DELETE and PUT at a location
LocationResponses(location) ==
    FaultResponses \cup
    (IF LockHeld(location)
     THEN {Response(200, "OK", "")}
     ELSE {Response(404, "Not Found", "no such lock")})

\* peekLockMessageRest without the test for 204
PeekLockResult_noEmptyTest(response) ==
    IF ~Ok(response)
    THEN Rejects(Error("REST API peek-lock failed", response.status, response.text))
    ELSE Resolves([location |-> response.location,
                   brokerProperties |-> [SequenceNumber |-> response.location.seq,
                                         LockToken |-> response.location.token],
                   userProperties |-> <<>>,
                   body |-> response.text])

\* what peekLockMessageRest makes of the response
PeekLockResult(response) ==
    IF response.status = 204 THEN Resolves(Null)
    ELSE IF ~Ok(response)
         THEN Rejects(Error("REST API peek-lock failed", response.status, response.text))
         ELSE Resolves([location |-> response.location,
                        brokerProperties |-> [SequenceNumber |-> response.location.seq,
                                              LockToken |-> response.location.token],
                        userProperties |-> <<>>,
                        body |-> response.text])

\* deleteMessageRest that logs a failure status and returns
DeleteResult_swallow(response) == Resolves(Undefined)

\* what deleteMessageRest makes of the response
DeleteResult(response) ==
    IF ~Ok(response)
    THEN Rejects(Error("REST API delete failed", response.status, response.text))
    ELSE Resolves(Undefined)

\* what unlockMessageRest makes of the response
UnlockResult(response) ==
    IF ~Ok(response)
    THEN Rejects(Error("REST API unlock failed", response.status, response.text))
    ELSE Resolves(Undefined)

\* no REST call yet: no lock handed out, nothing logged
RestIdle ==
    [pc |-> "idle", fn |-> "none", namespace |-> EmptyString, location |-> NoLocation,
     auth |-> NoOutcome, asked |-> <<>>, response |-> NoResponse, outcome |-> NoOutcome,
     locks |-> <<>>, issued |-> 0, receipts |-> {}, log |-> <<>>, n |-> 0]

\* everything the REST helpers leave alone, the dead-letter queue excepted
restFrame == <<locked, origin, op, message, dlq0, totalDeleted, call, entry, conv, pc,
               crashed, peekedMessages, peekedTarget, messages, idx, targetMessage,
               processedCount, deletedMessages, wasDeleted, pending, result, error,
               open, notification, ghostVars, storeVars,
               selection>>

\* the dead-letter queue holds up to two messages
InitRest ==
    /\ StoreIdle
    /\ dlq \in {{ReceivedMessage(n) : n \in 1..k} : k \in 0..2}
    /\ dlq0 = dlq
    /\ locked = {}
    /\ origin = <<>>
    /\ CallIdle
    /\ PoolIdle
    /\ op = "rest"
    /\ rest = RestIdle
    /\ entry = NoEntry
    /\ conv = NoConv

\* a helper is called: peekLockMessageRest(namespace, dlqPath), or
\* deleteMessageRest / unlockMessageRest(namespace, location) with a
\* location that a peek-lock returned
RestStart ==
    /\ rest.pc \in {"idle", "done"}
    /\ rest.n < MaxRestCalls
    /\ \E fn \in {"peekLockMessageRest", "deleteMessageRest", "unlockMessageRest"},
          namespace \in RestNamespaces,
          location \in rest.receipts \cup {NoLocation} :
          /\ (fn = "peekLockMessageRest") = (location = NoLocation)
          /\ rest' = [rest EXCEPT !.pc = "auth", !.fn = fn, !.namespace = namespace,
                                  !.location = location, !.auth = NoOutcome,
                                  !.asked = <<>>, !.response = NoResponse,
                                  !.outcome = NoOutcome, !.n = @ + 1]
    /\ UNCHANGED <<dlq, poolVars, restFrame>>

\* const authHeader = await this.getAuthHeader(namespace)
GetAuthHeader ==
    /\ rest.pc = "auth"
    /\ \E provided \in TokenOutcomes :
          LET auth == getAuthHeader(rest.namespace, provided)
          IN rest' = [rest EXCEPT
                        !.auth = auth,
                        !.asked = ScopesAsked(rest.namespace),
                        !.pc = IF auth.kind = "returned" THEN "fetch" ELSE "done",
                        !.outcome = IF auth.kind = "returned" THEN @ ELSE auth,
                        !.log = IF auth.kind = "returned" THEN @
                                ELSE Append(@, [fn |-> rest.fn, location |-> rest.location,
                                                status |-> 0, kind |-> "thrown"])]
    /\ UNCHANGED <<dlq, poolVars, restFrame>>

\* fetch(...) rejects: the call throws what fetch threw
FetchRejects ==
    /\ rest.pc = "fetch"
    /\ rest' = [rest EXCEPT
                  !.pc = "done",
                  !.outcome = Rejects(Error("fetch failed", 0, "")),
                  !.log = Append(@, [fn |-> rest.fn, location |-> rest.location,
                                     status |-> 0, kind |-> "thrown"])]
    /\ UNCHANGED <<dlq, poolVars, restFrame>>

\* peekLockMessageRest from the fetch on: the broker answers, the status is
\* dispatched
PeekLockFetch ==
    /\ rest.pc = "fetch"
    /\ rest.fn = "peekLockMessageRest"
    /\ \E response \in PeekLockResponses :
          LET outcome == PeekLockResult(response)
              granted == response.status = 201
          IN rest' = [rest EXCEPT
                        !.pc = "done",
                        !.response = response,
                        !.outcome = outcome,
                        !.locks = IF granted
                                  THEN MapSet(@, response.location.seq, response.location.token)
                                  ELSE @,
                        !.issued = IF granted THEN @ + 1 ELSE @,
                        !.receipts = IF outcome.kind = "returned" /\ outcome.value # Null
                                     THEN @ \cup {outcome.value.location}
                                     ELSE @,
                        !.log = Append(@, [fn |-> rest.fn, location |-> response.location,
                                           status |-> response.status,
                                           kind |-> outcome.kind])]
    /\ UNCHANGED <<dlq, poolVars, restFrame>>

\* deleteMessageRest from the fetch on
DeleteFetch ==
    /\ rest.pc = "fetch"
    /\ rest.fn = "deleteMessageRest"
    /\ \E response \in LocationResponses(rest.location) :
          LET outcome == DeleteResult(response)
          IN /\ rest' = [rest EXCEPT
                           !.pc = "done",
                           !.response = response,
                           !.outcome = outcome,
                           !.locks = IF response.status = 200
                                     THEN MapDelete(@, rest.location.seq) ELSE @,
                           !.log = Append(@, [fn |-> rest.fn, location |-> rest.location,
                                              status |-> response.status,
                                              kind |-> outcome.kind])]
             /\ dlq' = IF response.status = 200
                       THEN {m \in dlq : m.sequenceNumber # rest.location.seq}
                       ELSE dlq
    /\ UNCHANGED <<poolVars, restFrame>>

\* unlockMessageRest from the fetch on
UnlockFetch ==
    /\ rest.pc = "fetch"
    /\ rest.fn = "unlockMessageRest"
    /\ \E response \in LocationResponses(rest.location) :
          LET outcome == UnlockResult(response)
          IN rest' = [rest EXCEPT
                        !.pc = "done",
                        !.response = response,
                        !.outcome = outcome,
                        !.locks = IF response.status = 200
                                  THEN MapDelete(@, rest.location.seq) ELSE @,
                        !.log = Append(@, [fn |-> rest.fn, location |-> rest.location,
                                           status |-> response.status,
                                           kind |-> outcome.kind])]
    /\ UNCHANGED <<dlq, poolVars, restFrame>>

\* a lock runs out before it is used
LockExpires ==
    /\ \E seq \in DOMAIN rest.locks : rest' = [rest EXCEPT !.locks = MapDelete(@, seq)]
    /\ UNCHANGED <<dlq, poolVars, restFrame>>

\* a connection string is registered while the REST helpers are in use
RestRegister ==
    /\ \E connectionString \in SasConnectionStrings :
          registerConnectionString(connectionString)
    /\ UNCHANGED <<namespaces, dispose, constructed, closed, disposeCalls, typed,
                   engineVars>>

NextRest ==
    \/ RestStart
    \/ GetAuthHeader
    \/ FetchRejects
    \/ PeekLockFetch
    \/ DeleteFetch
    \/ UnlockFetch
    \/ LockExpires
    \/ RestRegister

SpecRest == InitRest /\ [][NextRest]_vars

(***************************************************************************)
(* Properties of the REST helpers (SpecRest).                              *)
(***************************************************************************)
\* this step is the one in which getAuthHeader returns or throws
AuthSettles == rest.pc = "auth" /\ rest'.pc # "auth"

\* a SharedAccessSignature value was returned
ReturnedSas(auth) ==
    auth.kind = "returned" /\ auth.value.scheme = "SharedAccessSignature"

\* 'Bearer <token>' was returned
ReturnedBearer(auth) == auth.kind = "returned" /\ auth.value.scheme = "Bearer"

\* getAuthHeader touched none of the service's maps
AuthKeepsService == UNCHANGED <<clients, adminClients, connectionStrings>>

\* C21: getAuthHeader returns a SharedAccessSignature value if and only if a
\* connection string is registered for the namespace; otherwise it asks a
\* token for the fixed scope and returns 'Bearer <token>' or fails; it never
\* touches the client caches and stores nothing.
C21_SasIffRegistered ==
    [][AuthSettles =>
          /\ ReturnedSas(rest'.auth) <=> (rest.namespace \in DOMAIN connectionStrings)
          /\ rest.namespace \notin DOMAIN connectionStrings =>
                /\ rest'.asked = <<TokenScope>>
                /\ ReturnedBearer(rest'.auth) \/ rest'.auth.kind = "thrown"
          /\ AuthKeepsService]_vars

\* C21 as amended: with a registered connection string getAuthHeader never
\* asks for a token; it returns a SharedAccessSignature value signed with
\* the registered key when the string holds both SharedAccessKeyName and
\* SharedAccessKey, and throws otherwise.  Without one it asks a token for
\* the fixed scope and returns 'Bearer <token>', or throws when the provider
\* gives none or fails.  It never touches the client caches and stores
\* nothing.
C21_SasOrBearerOrError ==
    [][AuthSettles =>
          /\ rest.namespace \in DOMAIN connectionStrings =>
                LET connectionString == connectionStrings[rest.namespace]
                IN /\ rest'.asked = <<>>
                   /\ IF connectionString.keyName # "" /\ connectionString.key # ""
                      THEN /\ ReturnedSas(rest'.auth)
                           /\ rest'.auth.value.skn = connectionString.keyName
                           /\ rest'.auth.value.sig.hmac = connectionString.key
                           /\ rest'.auth.value.sr = rest.namespace
                      ELSE rest'.auth.kind = "thrown"
          /\ rest.namespace \notin DOMAIN connectionStrings =>
                /\ rest'.asked = <<TokenScope>>
                /\ ReturnedBearer(rest'.auth) \/ rest'.auth.kind = "thrown"
          /\ AuthKeepsService]_vars

\* a registered connection string without its key made getAuthHeader throw
C21_Witness ==
    /\ op = "rest"
    /\ rest.pc = "done"
    /\ rest.auth.kind = "thrown"
    /\ rest.asked = <<>>
    /\ rest.namespace \in DOMAIN connectionStrings
    /\ connectionStrings[rest.namespace].key = ""

\* a peekLockMessageRest call that got an answer to its fetch is over
PeekLockAnswered ==
    /\ rest.pc = "done"
    /\ rest.fn = "peekLockMessageRest"
    /\ rest.response # NoResponse

\* C22: peekLockMessageRest returns null, without error, on status 204;
\* throws an error carrying the status and the body text on every other
\* non-success status; and returns a receipt (location, broker properties,
\* user properties, raw body) only on a success status other than 204.
C22_PeekLockStatusDispatch ==
    PeekLockAnswered =>
        /\ rest.response.status = 204 => rest.outcome = Resolves(Null)
        /\ (rest.response.status # 204 /\ ~Ok(rest.response)) =>
              /\ rest.outcome.kind = "thrown"
              /\ rest.outcome.error.status = rest.response.status
              /\ rest.outcome.error.text = rest.response.text
        /\ (rest.outcome.kind = "returned" /\ rest.outcome.value # Null) =>
              /\ Ok(rest.response) /\ rest.response.status # 204
              /\ rest.outcome.value.location = rest.response.location
              /\ rest.outcome.value.body = rest.response.text
              /\ DOMAIN rest.outcome.value =
                    {"location", "brokerProperties", "userProperties", "body"}

\* a peek-lock returned a receipt, and a later one found the queue empty
C22_Witness ==
    /\ PeekLockAnswered
    /\ rest.response.status = 204
    /\ rest.outcome = Resolves(Null)
    /\ \E i \in DOMAIN rest.log :
          /\ rest.log[i].fn = "peekLockMessageRest"
          /\ rest.log[i].status = 201
          /\ rest.log[i].kind = "returned"

\* the finished deleteMessageRest calls at a location, as positions in the log
DeletesAt(location) ==
    {i \in DOMAIN rest.log :
        rest.log[i].fn = "deleteMessageRest" /\ rest.log[i].location = location}

\* C23: a REST peek-lock followed by deleteMessageRest at the returned
\* location succeeds exactly once: a delete the broker accepts returns and
\* the message is gone for good, every later delete at the same location
\* fails, and no failure status is swallowed.
C23_DeleteAtLocationOnce ==
    \A location \in rest.receipts :
        /\ Cardinality({i \in DeletesAt(location) : rest.log[i].kind = "returned"}) <= 1
        /\ \A i \in DeletesAt(location) :
              /\ rest.log[i].status = 200 <=> rest.log[i].kind = "returned"
              /\ rest.log[i].kind = "returned" =>
                    /\ \A m \in dlq : m.sequenceNumber # location.seq
                    /\ \A j \in DeletesAt(location) : j > i => rest.log[j].kind = "thrown"

\* the first delete at a location returned and the second one was refused
C23_Witness ==
    \E location \in rest.receipts :
        \E i, j \in DeletesAt(location) :
            /\ i < j
            /\ rest.log[i].kind = "returned"
            /\ rest.log[j].kind = "thrown"
            /\ rest.log[j].status = 404

(***************************************************************************)
(* The entry of the public operations: the test of the target arguments,   *)
(* the receiver (and sender) it creates, and the first broker call with    *)
(* whatever bounds its wait.  The broker may answer, or stay silent.       *)
(***************************************************************************)
\* what a caller may pass as queueName, topicName or subscriptionName
TargetArgs == {Undefined, Str(""), Str("n")}

\* if (value): a non-empty string
Truthy(v) == v.t = "string" /\ v.s # ""

\* the operations that take a target, and the REST path helper
TargetOperations ==
    {"peekActiveMessages", "peekDeadLetterMessages", "receiveDeadLetterMessages",
     "resubmitMessage", "deleteMessage", "purgeDeadLetterQueue", "getDlqPath"}

\* the entity a receiver or sender is opened on
NoEntity == [kind |-> "none", name |-> "", subscription |-> ""]
QueueEntity(queueName) == [kind |-> "queue", name |-> queueName.s, subscription |-> ""]
TopicEntity(topicName) == [kind |-> "topic", name |-> topicName.s, subscription |-> ""]
SubscriptionEntity(topicName, subscriptionName) ==
    [kind |-> "subscription", name |-> topicName.s, subscription |-> subscriptionName.s]

ReceiverConfigError ==
    Error("Either queueName or both topicName and subscriptionName must be provided", 0, "")
SenderConfigError == Error("Either queueName or topicName must be provided", 0, "")
PeekTimeoutError == Error("Peek operation timed out after 30 seconds", 0, "")
NotFoundError ==
    Error("Message not found in dead-letter queue. It may have already been deleted.", 0, "")
BrokerError == Error("ServiceBusError", 0, "")
CloseError == Error("close failed", 0, "")

\* the receiver test that takes a topic without a subscription
ReceiverFor_topicAlone(queueName, topicName, subscriptionName) ==
    IF Truthy(queueName) THEN QueueEntity(queueName)
    ELSE IF Truthy(topicName) THEN SubscriptionEntity(topicName, Str(""))
    ELSE NoEntity

\* if (queueName) createReceiver(queueName, ...) else if (topicName &&
\* subscriptionName) createReceiver(topicName, subscriptionName, ...) else
\* throw: the entity of the receiver, NoEntity for the throw
ReceiverFor(queueName, topicName, subscriptionName) ==
    IF Truthy(queueName) THEN QueueEntity(queueName)
    ELSE IF Truthy(topicName) /\ Truthy(subscriptionName)
         THEN SubscriptionEntity(topicName, subscriptionName)
         ELSE NoEntity

\* resubmitMessage: if (queueName) createSender(queueName) else if
\* (topicName) createSender(topicName) else throw
SenderFor(queueName, topicName) ==
    IF Truthy(queueName) THEN QueueEntity(queueName)
    ELSE IF Truthy(topicName) THEN TopicEntity(topicName)
    ELSE NoEntity

\* getDlqPath(queueName, topicName, subscriptionName)
getDlqPath(queueName, topicName, subscriptionName) ==
    IF Truthy(queueName)
    THEN Resolves([path |-> <<queueName.s, "$deadletterqueue">>])
    ELSE IF Truthy(topicName) /\ Truthy(subscriptionName)
         THEN Resolves([path |-> <<topicName.s, "Subscriptions", subscriptionName.s,
                                   "$deadletterqueue">>])
         ELSE Rejects(ReceiverConfigError)

\* the first broker call of an operation
FirstCall(operation) ==
    IF operation \in {"peekActiveMessages", "peekDeadLetterMessages", "resubmitMessage"}
    THEN "peek" ELSE "receive"

\* the operations that race their peek against a 30 s timer
RacesTimer(operation) == operation \in {"peekActiveMessages", "peekDeadLetterMessages"}

\* the operations whose close() in finally carries .catch(() => {})
IgnoresCloseError(operation) ==
    operation \in {"peekActiveMessages", "peekDeadLetterMessages"}

\* an operation about to be called with its target arguments
EntryIdle(operation, queueName, topicName, subscriptionName) ==
    [pc |-> "idle", operation |-> operation, queueName |-> queueName,
     topicName |-> topicName, subscriptionName |-> subscriptionName,
     sender |-> NoEntity, receiver |-> NoEntity, issued |-> <<>>, awaiting |-> "none",
     timer |-> FALSE, window |-> FALSE, expired |-> FALSE, outcome |-> NoOutcome,
     open |-> {}]

\* everything the entry of an operation leaves alone
entryFrame == <<brokerVars, op, message, dlq0, totalDeleted, call, poolVars, rest, conv,
                pc, crashed, peekedMessages, peekedTarget, messages, idx, targetMessage,
                processedCount, deletedMessages, wasDeleted, pending, result, error,
                open, notification, ghostVars, storeVars,
               selection>>

InitEntry ==
    /\ StoreIdle
    /\ EngineIdle
    /\ PoolIdle
    /\ op = "entry"
    /\ rest = NoRest
    /\ conv = NoConv
    /\ entry \in {EntryIdle(o, q, t, s) :
                    o \in TargetOperations, q \in TargetArgs, t \in TargetArgs,
                    s \in TargetArgs}

\* the operation is called: it runs up to its first await, or throws
EntryCall ==
    /\ entry.pc = "idle"
    /\ LET sender == IF entry.operation = "resubmitMessage"
                     THEN SenderFor(entry.queueName, entry.topicName)
                     ELSE NoEntity
           receiver == ReceiverFor(entry.queueName, entry.topicName,
                                   entry.subscriptionName)
       IN IF entry.operation = "getDlqPath"
          THEN entry' = [entry EXCEPT
                           !.pc = "done",
                           !.outcome = getDlqPath(entry.queueName, entry.topicName,
                                                  entry.subscriptionName)]
          ELSE IF entry.operation = "resubmitMessage" /\ sender = NoEntity
          THEN entry' = [entry EXCEPT !.pc = "done",
                                      !.outcome = Rejects(SenderConfigError)]
          ELSE IF receiver = NoEntity
          THEN entry' = [entry EXCEPT
                           !.pc = "done",
                           !.sender = sender,
                           !.open = IF sender = NoEntity THEN {} ELSE {"sender"},
                           !.outcome = Rejects(ReceiverConfigError)]
          ELSE entry' = [entry EXCEPT
                           !.pc = "waiting",
                           !.sender = sender,
                           !.receiver = receiver,
                           !.open = IF sender = NoEntity THEN {"receiver"}
                                    ELSE {"sender", "receiver"},
                           !.issued = <<FirstCall(entry.operation)>>,
                           !.awaiting = FirstCall(entry.operation),
                           !.timer = RacesTimer(entry.operation),
                           !.window = FirstCall(entry.operation) = "receive"]
    /\ UNCHANGED entryFrame

\* the broker answers the call with messages: peekActiveMessages,
\* peekDeadLetterMessages and receiveDeadLetterMessages return them, the
\* other operations go on with their next step
BrokerAnswers ==
    /\ entry.pc = "waiting"
    /\ entry' = [entry EXCEPT
                   !.pc = IF entry.operation \in {"resubmitMessage", "deleteMessage",
                                                  "purgeDeadLetterQueue"}
                          THEN "continues" ELSE "finally",
                   !.awaiting = "none",
                   !.outcome = IF entry.operation \in {"resubmitMessage", "deleteMessage",
                                                       "purgeDeadLetterQueue"}
                               THEN @ ELSE Resolves([messages |-> "some"])]
    /\ UNCHANGED entryFrame

\* the broker answers the call with a failure
BrokerRefuses ==
    /\ entry.pc = "waiting"
    /\ entry' = [entry EXCEPT !.pc = "finally", !.awaiting = "none",
                              !.outcome = Rejects(BrokerError)]
    /\ UNCHANGED entryFrame

\* setTimeout(() => reject(new Error('Peek operation timed out ...')), 30000)
\* fires before the peek has settled
TimerFires ==
    /\ entry.pc = "waiting"
    /\ entry.timer
    /\ entry' = [entry EXCEPT !.pc = "finally", !.awaiting = "none", !.expired = TRUE,
                              !.outcome = Rejects(PeekTimeoutError)]
    /\ UNCHANGED entryFrame

\* maxWaitTimeInMs runs out: receiveMessages resolves with an empty batch,
\* and the operation goes on with it
WaitWindowEnds ==
    /\ entry.pc = "waiting"
    /\ entry.window
    /\ entry' = [entry EXCEPT
                   !.pc = "finally",
                   !.awaiting = "none",
                   !.expired = TRUE,
                   !.outcome =
                      CASE entry.operation = "deleteMessage" -> Rejects(NotFoundError)
                        [] entry.operation = "purgeDeadLetterQueue" ->
                              Resolves([totalDeleted |-> 0])
                        [] OTHER -> Resolves([messages |-> "none"])]
    /\ UNCHANGED entryFrame

\* the finally block: close() resolves, or rejects (ignored where the
\* call carries a catch, thrown in place of the outcome elsewhere)
EntryFinally ==
    /\ entry.pc = "finally"
    /\ \E closeFails \in BOOLEAN :
          entry' = [entry EXCEPT
                      !.pc = "done",
                      !.open = IF closeFails THEN @ ELSE {},
                      !.outcome = IF closeFails /\ ~IgnoresCloseError(entry.operation)
                                  THEN Rejects(CloseError) ELSE @]
    /\ UNCHANGED entryFrame

NextEntry ==
    \/ EntryCall
    \/ BrokerAnswers
    \/ BrokerRefuses
    \/ TimerFires
    \/ WaitWindowEnds
    \/ EntryFinally

SpecEntry == InitEntry /\ [][NextEntry]_vars

(***************************************************************************)
(* Properties of the operations' entry (SpecEntry).                        *)
(***************************************************************************)
\* neither a queue name nor both a topic name and a subscription name
NoTarget ==
    /\ ~Truthy(entry.queueName)
    /\ ~(Truthy(entry.topicName) /\ Truthy(entry.subscriptionName))

ConfigErrors == {ReceiverConfigError, SenderConfigError}

\* C24: an operation called with neither a queue name nor both a topic name
\* and a subscription name fails with a configuration error before any
\* peek, receive, send, complete or abandon is issued; otherwise exactly one
\* target variant is acted on: the queue when a queue name is given, the
\* topic and subscription when not.
C24_TargetCheckedFirst ==
    entry.pc # "idle" =>
        IF NoTarget
        THEN /\ entry.pc = "done"
             /\ entry.outcome.kind = "thrown"
             /\ entry.outcome.error \in ConfigErrors
             /\ entry.issued = <<>>
             /\ entry.receiver = NoEntity
        ELSE entry.operation # "getDlqPath" =>
             /\ entry.receiver =
                   IF Truthy(entry.queueName) THEN QueueEntity(entry.queueName)
                   ELSE SubscriptionEntity(entry.topicName, entry.subscriptionName)
             /\ entry.operation = "resubmitMessage" =>
                   entry.sender =
                      IF Truthy(entry.queueName) THEN QueueEntity(entry.queueName)
                      ELSE TopicEntity(entry.topicName)
             /\ entry.operation # "resubmitMessage" => entry.sender = NoEntity

\* resubmitMessage called with a topic and no subscription has thrown
C24_Witness ==
    /\ op = "entry"
    /\ entry.operation = "resubmitMessage"
    /\ ~Truthy(entry.queueName) /\ Truthy(entry.topicName)
    /\ ~Truthy(entry.subscriptionName)
    /\ entry.pc = "done"
    /\ entry.outcome = Rejects(ReceiverConfigError)
    /\ entry.issued = <<>>

\* C25: no operation hangs when the broker never answers a peek or a
\* receive: while an operation waits for one, a timeout or a wait window
\* bounds the wait, and an operation whose bound ran out ends with the
\* timeout failure.
C25_WaitsBoundedTimeoutSurfaced ==
    /\ entry.pc = "waiting" => (entry.timer \/ entry.window)
    /\ (entry.pc = "done" /\ entry.expired) => entry.outcome = Rejects(PeekTimeoutError)


(***************************************************************************)
(* convertToPlainObject on its own: one value is converted, the result is  *)
(* converted once more, and resubmitMessage builds the message it sends    *)
(* from a dead-letter message carrying the value.                          *)
(***************************************************************************)
\* the .NET side: an instant offset ticks away from the Unix epoch, written
\* as the 8 bytes of its tick count, most significant first
RECURSIVE BigEndian(_, _)
BigEndian(mag, n) ==
    IF n = 0 THEN <<>>
    ELSE LET dm == DivStep(mag, 256, Len(mag), 0)
         IN Append(BigEndian(Trim(dm.q), n - 1), dm.r)

\* ms whole milliseconds and r further ticks, before or after the epoch
TickOffset(neg, ms, r) == Signed(neg, Trim(<<r>> \o ms))
TickSample(neg, ms, r) ==
    [instant |-> Signed(neg, ms),
     bytes |-> BigEndian(Plus(ticksToUnixEpoch, TickOffset(neg, ms, r)).mag, 8)]

\* 0, 1 ms, one day, 2024-01-01, the last millisecond of the year 9999,
\* and 0001-01-01 measured back from the epoch
SampleMillis ==
    {<<>>, <<1>>, <<8640>>, <<0, 6720, 7040, 1>>, <<9999, 79, 4023, 253>>,
     <<0, 9680, 1355, 62>>}
SampleTicks == {0, 1, 5000, 9999}

TickSamples ==
    {TickSample(neg, ms, r) : <<neg, ms, r>> \in
        {s \in BOOLEAN \X SampleMillis \X SampleTicks :
            ~(s[1] /\ LessMag(ticksToUnixEpoch.mag, TickOffset(s[1], s[2], s[3]).mag))}}

\* words of Long values either side of 1e12 and of 2e12
SampleLow ==
    {Natural(<<>>), Natural(<<7327, 6758, 35>>), Natural(<<7328, 6758, 35>>),
     Natural(<<7329, 6758, 35>>), Natural(<<7359, 4020, 28>>),
     Natural(<<7360, 4020, 28>>), Natural(<<7361, 4020, 28>>),
     Signed(TRUE, <<9968, 2737, 7>>), Signed(TRUE, <<1>>)}
SampleHigh ==
    {Natural(<<>>), Natural(<<232>>), Natural(<<233>>), Natural(<<409>>),
     Natural(<<465>>), Natural(<<466>>), Signed(TRUE, <<1>>)}
LongSamples == {LongV(Num(low), Num(high)) : low \in SampleLow, high \in SampleHigh}

NoInstant == [t |-> "none"]
ConvertIdle(input, instant) ==
    [pc |-> "idle", input |-> input, instant |-> instant,
     output |-> Undefined, again |-> Undefined, sent |-> NoOutcome]

\* the tick count of the Unix epoch as a Buffer, and as an array of numbers
EpochOctets == <<8, 159, 127, 245, 247, 181, 128, 0>>
EpochNumbers == [i \in 1..8 |-> Num(Natural(Trim(<<EpochOctets[i]>>)))]
One == Num(Natural(<<1>>))
Two == Num(Natural(<<2>>))
\* 409 * 2^32: an instant of the year 2025 in milliseconds
RecentLong == LongV(Num(Natural(<<>>)), Num(Natural(<<409>>)))

\* values built only from primitives, arrays and string-keyed records
PlainSamples ==
    {Str("text"), Str(""), Bool(TRUE), Null, Undefined, One,
     Arr(<<>>), Arr(<<Str("a"), Two>>),
     Obj("k" :> Str("v")),
     Obj("a" :> Arr(<<Obj("b" :> Null)>>)),
     Obj("low" :> One @@ "high" :> Two),
     Obj("low" :> One @@ "high" :> Two @@ "type" :> Str("int64")),
     Obj("low" :> One),
     Obj("descriptor" :> Str("d") @@ "value" :> Str("v")),
     Obj("descriptor" :> Obj("value" :> Str("com.microsoft:datetime-offset"))
            @@ "value" :> Arr(EpochNumbers)),
     Obj("descriptor" :> Obj("value" :> Str("com.microsoft:datetime-offset"))
            @@ "value" :> Null),
     Arr(<<Obj("low" :> One @@ "high" :> Two)>>)}

\* values that are malformed, fail when asked, or contain themselves
HostileSamples ==
    {DateTimeOffset(Bytes(<<>>)),
     DateTimeOffset(Bytes(<<8, 159, 127>>)),
     DateTimeOffset(Bytes(EpochOctets \o <<1>>)),
     DateTimeOffset(Arr(<<Num(Natural(<<8>>)), Str("x")>>)),
     DateTimeOffset(Obj("k" :> Str("v"))),
     Obj("toJSON" :> Fn(TRUE, Null)),
     Obj("toJSON" :> Fn(FALSE, Obj("k" :> DateV(5)))),
     Obj("k" :> Obj("toJSON" :> Fn(TRUE, Null))),
     Obj("self" :> Ref(1)),
     Arr(<<Arr(<<Ref(2)>>)>>),
     AmqpMap("self" :> Ref(1)),
     InvalidDate,
     Obj("when" :> InvalidDate)}

\* broker-native values inside composites
NestedSamples ==
    {Obj("n" :> RecentLong),
     Arr(<<DateTimeOffset(Bytes(EpochOctets)), RecentLong>>),
     AmqpMap("seq" :> LongV(One, Num(Natural(<<>>))) @@ "at" :> DateV(7)),
     AmqpMap("low" :> One @@ "high" :> Two),
     AmqpMap("m" :> AmqpMap("at" :> DateTimeOffset(Bytes(EpochOctets)))),
     Obj("low" :> Num(Natural(<<>>)) @@ "high" :> Num(Natural(<<409>>))
            @@ "type" :> Str("int64")),
     Arr(<<DateTimeOffset(Arr(<<Str("x")>>))>>)}

ConvertCases ==
    {ConvertIdle(DateTimeOffset(Bytes(s.bytes)), s.instant) : s \in TickSamples}
    \cup {ConvertIdle(v, NoInstant) :
            v \in LongSamples \cup PlainSamples \cup HostileSamples \cup NestedSamples}

\* the dead-letter message that carries the value as its body and in an
\* application property
Carrier(value) ==
    [ReceivedMessage(1) EXCEPT !.body = value,
                               !.applicationProperties = Obj("p" :> value)]

\* resubmitMessage from the conversion of the body to sendMessages: the
\* conversion of the application properties is outside any try block
SendOutcome(t) ==
    LET convertedAppProps == convertToPlainObject(t.applicationProperties)
    IN IF IsThrown(convertedAppProps) THEN Rejects(convertedAppProps)
       ELSE Resolves(LockSendMessage(t))

convFrame == <<brokerVars, op, message, dlq0, totalDeleted, call, poolVars, rest, entry,
               pc, crashed, peekedMessages, peekedTarget, messages, idx, targetMessage,
               processedCount, deletedMessages, wasDeleted, pending, result, error,
               open, notification, ghostVars, storeVars,
               selection>>

InitConvert ==
    /\ StoreIdle
    /\ EngineIdle
    /\ PoolIdle
    /\ op = "convert"
    /\ rest = NoRest
    /\ entry = NoEntry
    /\ conv \in ConvertCases

ConvertValue ==
    /\ op = "convert"
    /\ conv.pc = "idle"
    /\ conv' = [conv EXCEPT !.pc = "converted",
                            !.output = convertToPlainObject(conv.input)]
    /\ UNCHANGED convFrame

ConvertAgain ==
    /\ op = "convert"
    /\ conv.pc = "converted"
    /\ ~IsThrown(conv.output)
    /\ conv' = [conv EXCEPT !.pc = "twice",
                            !.again = convertToPlainObject(conv.output)]
    /\ UNCHANGED convFrame

ResubmitSends ==
    /\ op = "convert"
    /\ conv.pc \in {"converted", "twice"}
    /\ conv' = [conv EXCEPT !.pc = "sent", !.sent = SendOutcome(Carrier(conv.input))]
    /\ UNCHANGED convFrame

NextConvert == ConvertValue \/ ConvertAgain \/ ResubmitSends

SpecConvert == InitConvert /\ [][NextConvert]_vars


(***************************************************************************)
(* Properties of convertToPlainObject.                                     *)
(***************************************************************************)
Converted == conv.pc # "idle"
IsLong(v) == v.t = "object" /\ v.ctor = "Long"
\* low + high * 2^32
Reconstructed(v) ==
    Plus(IntegerOf(v.own["low"]), Times(Times(IntegerOf(v.own["high"]), 65536), 65536))

\* C26: a split-word integer whose value low + high * 2^32 lies in
\* [1e12, 2e12), the lower bound included and the upper bound excluded, is
\* converted to an ISO-8601 string; one outside the range is converted to
\* the plain number.
C26_LongRangeHalfOpen ==
    (Converted /\ IsLong(conv.input)) =>
        LET n == Reconstructed(conv.input)
            inRange == ~Less(n, Natural(<<0, 0, 0, 1>>)) /\ Less(n, Natural(<<0, 0, 0, 2>>))
        IN IF inRange THEN conv.output.t = "string"
           ELSE conv.output = Num(n)

IsTicked == "neg" \in DOMAIN conv.instant

\* C27: an 8-byte big-endian tick count tagged com.microsoft:datetime-offset
\* is converted to the instant (ticks - 621355968000000000) / 10000
\* milliseconds from the Unix epoch, before the epoch as well as after it.
C27_TicksToInstant ==
    (Converted /\ IsTicked) => conv.output = Str(toISOString(conv.instant))

C27_Witness ==
    /\ conv.pc = "converted"
    /\ IsTicked
    /\ conv.instant.neg
    /\ conv.input.own["value"].octets[8] # 0
    /\ conv.output = Str(toISOString(conv.instant))


\* v is built only from primitives, arrays and string-keyed records
RECURSIVE IsPlain(_)
IsPlain(v) ==
    CASE v.t \in {"undefined", "null", "string", "boolean", "number"} -> TRUE
      [] v.t = "Array" -> \A i \in DOMAIN v.items : IsPlain(v.items[i])
      [] v.t = "object" -> v.ctor = "Object" /\ \A k \in DOMAIN v.own : IsPlain(v.own[k])
      [] OTHER -> FALSE

\* C28: a value built only from primitives, arrays and string-keyed records
\* (records with keys low and high, or descriptor and value, included) is
\* converted to a structurally equal value, and converting a result once
\* more returns the same result.
C28_IdempotentOnPlain ==
    /\ (Converted /\ IsPlain(conv.input)) => conv.output = conv.input
    /\ conv.pc = "twice" => conv.again = conv.output


\* C29: convertToPlainObject is total: for every input, a datetime-offset
\* value with a malformed byte count, an object whose toJSON fails and a
\* nested or self-referencing composite included, it returns a value and
\* throws nothing to its caller.
C29_NeverThrows == Converted => ~IsThrown(conv.output)

\* { descriptor: { value: 'com.microsoft:datetime-offset' }, value }
IsTickTimestamp(v) ==
    /\ v.t = "object"
    /\ {"descriptor", "value"} \subseteq DOMAIN v.own
    /\ v.own["descriptor"].t = "object"
    /\ "value" \in DOMAIN v.own["descriptor"].own
    /\ v.own["descriptor"].own["value"] = Str("com.microsoft:datetime-offset")
\* { low, high }
IsSplitWord(v) == v.t = "object" /\ {"low", "high"} \subseteq DOMAIN v.own

RECURSIVE ContainsNative(_)
ContainsNative(v) ==
    CASE v.t = "Array" -> \E i \in DOMAIN v.items : ContainsNative(v.items[i])
      [] v.t = "object" ->
            \/ IsTickTimestamp(v)
            \/ IsSplitWord(v)
            \/ \E k \in DOMAIN v.own : ContainsNative(v.own[k])
            \/ \E k \in DOMAIN v.entries : ContainsNative(v.entries[k])
      [] OTHER -> FALSE

\* C30: no value returned by convertToPlainObject, and no body or
\* application property of a message sent by resubmitMessage, contains at
\* any depth a tick-timestamp object or a split-word {low, high} object.
C30_NoNativeValueLeaks ==
    /\ Converted => ~ContainsNative(conv.output)
    /\ (conv.pc = "sent" /\ conv.sent.kind = "returned") =>
            /\ ~ContainsNative(conv.sent.value.body)
            /\ \A k \in DOMAIN conv.sent.value.applicationProperties :
                    ~ContainsNative(conv.sent.value.applicationProperties[k])


(***************************************************************************)
(* The life of a namespace: added, used, removed, and restored when the    *)
(* extension starts again.                                                 *)
(***************************************************************************)
\* azureServiceBus.removeNamespace, confirmed: the stored secret is deleted,
\* then treeProvider.removeNamespace(item.namespace); a delete that rejects
\* ends the command before the tree is touched
RemoveNamespace_keepSecret ==
    \E namespace \in namespaces :
        /\ namespaces' = namespaces \ {namespace}
        /\ addedWith' = addedWith \ {namespace}
        /\ returned' = [call |-> "removeNamespace", arg |-> namespace, done |-> TRUE]
        /\ UNCHANGED <<secrets, connectionStrings, clients, adminClients, dispose,
                       constructed, built, served, closed, disposeCalls, typed,
                       machineVars>>

RemoveNamespace ==
    \E namespace \in namespaces, deleted \in BOOLEAN :
        /\ IF deleted
           THEN /\ secrets' = MapDelete(secrets, namespace)
                /\ namespaces' = namespaces \ {namespace}
                /\ addedWith' = addedWith \ {namespace}
           ELSE UNCHANGED <<secrets, namespaces, addedWith>>
        /\ returned' = [call |-> "removeNamespace", arg |-> namespace, done |-> deleted]
        /\ UNCHANGED <<connectionStrings, clients, adminClients, dispose,
                       constructed, built, served, closed, disposeCalls, typed,
                       machineVars>>

\* restoreConnectionStrings(context, service, savedNamespaces) run to its
\* end: every saved namespace with a stored secret is registered under the
\* namespace parsed from the secret
Restored ==
    LET saved == namespaces \cap DOMAIN secrets
        keys == {getNamespaceFromConnectionString(secrets[ns]) : ns \in saved}
                    \ {EmptyString}
    IN [k \in keys |->
            secrets[CHOOSE ns \in saved : getNamespaceFromConnectionString(secrets[ns]) = k]]

\* the extension host starts the extension again: activate() builds a new
\* service and tree provider (which loads the saved namespaces) and awaits
\* restoreConnectionStrings; a secrets.get that rejects ends activate() with
\* the strings registered so far
Activate ==
    /\ dispose.pc = "idle"
    /\ \/ /\ connectionStrings' = Restored
          /\ returned' = [call |-> "activate", activated |-> TRUE]
       \/ /\ namespaces \cap DOMAIN secrets # {}
          /\ \E some \in SUBSET DOMAIN Restored :
                /\ some # DOMAIN Restored
                /\ connectionStrings' = [k \in some |-> Restored[k]]
          /\ returned' = [call |-> "activate", activated |-> FALSE]
    /\ clients' = EmptyMap
    /\ adminClients' = EmptyMap
    /\ dispose' = NoDispose
    /\ constructed' = 0
    /\ built' = [c \in Caches, k \in Keys |-> 0]
    /\ served' = [c \in Caches, k \in Keys |-> {}]
    /\ closed' = <<>>
    /\ disposeCalls' = 0
    /\ UNCHANGED <<namespaces, typed, engineVars>>

\* namespaces are added and removed and the extension is started again
NextStore ==
    \/ AddNamespaceConnectionString
    \/ AddNamespaceAzureAd
    \/ RemoveNamespace
    \/ Activate

SpecStore == InitPool /\ [][NextStore]_vars

\* C31: across add-namespace-with-connection-string, remove-namespace and
\* restart, right after a restart a namespace has a registered connection
\* string in the service if and only if it was added with one and not
\* removed since; a completed removal has erased the stored secret.
C31_RestoredIffAddedAndKept ==
    /\ (returned.call = "activate" /\ returned.activated) =>
            DOMAIN connectionStrings = addedWith
    /\ (returned.call = "removeNamespace" /\ returned.done) =>
            returned.arg \notin DOMAIN secrets

C31_Witness ==
    /\ returned.call = "activate"
    /\ returned.activated
    /\ addedWith # {}
    /\ namespaces \ addedWith # {}
    /\ DOMAIN connectionStrings = addedWith


(***************************************************************************)
(* The two phases of resubmitMessage and what follows them.                *)
(***************************************************************************)
\* C32: on the peek-snapshot path the receive-and-delete call is issued only
\* after the send to the origin entity succeeded (a failed send issues no
\* receive-and-delete), and the removed batch is matched against the target
\* by message id.
C32_DeleteAfterSendMatchById ==
    /\ calls["receiveAndDelete"] > 0 =>
            /\ origin # <<>>
            /\ origin[Len(origin)] = PeekSendMessage(peekedTarget)
    /\ pending = "SendFailed" => calls["receiveAndDelete"] = 0
    /\ wasDeleted # Undefined =>
            wasDeleted = Bool(\E i \in DOMAIN deletedMessages :
                                deletedMessages[i].messageId = peekedTarget.messageId)

C32_Witness ==
    /\ pc = "done"
    /\ calls["receiveAndDelete"] = 1
    /\ wasDeleted = Bool(TRUE)
    /\ \A i \in DOMAIN deletedMessages : ~IsTarget(deletedMessages[i])


\* the three results of the search
FoundWithLock == targetMessage # Undefined
FoundViaPeek == targetMessage = Undefined /\ calls["send"] > 0
NotFound == pending \in {"NoMessagesInDlq", "TargetNotFound"}
OutcomeCount ==
    (IF FoundWithLock THEN 1 ELSE 0) + (IF FoundViaPeek THEN 1 ELSE 0)
        + (IF NotFound THEN 1 ELSE 0)
\* the service call was made and has returned
ResubmitReturned == pc = "done" /\ calls["close"] > 0
\* the broker rejected a call of the search
SearchRejected == pending \in {"PeekFailed", "ReceiveFailed", "AbandonFailed"}

LockPathUnavailable ==
    /\ calls["receive"] = 1
    /\ messages = <<>>
    /\ peekedTarget # Undefined
    /\ pending # "ReceiveFailed"

\* C34: when the lock-based path cannot deliver the target (the receive
\* returns no message although the peek confirmed it), the operation goes
\* on through the REST fallback (peekLockMessageRest, then deleteMessageRest
\* or unlockMessageRest), each REST call resolving its own auth header.
C34_LockFailureUsesRest ==
    (LockPathUnavailable /\ pc \notin {"rs_receive", "rs_peek_send"}) => rest.pc # "idle"


\* the messages of the dead-letter queue other than the target
NonTargets(queue) == {m \in queue : ~IsTarget(m)}

\* C35: resubmitMessage never removes from the dead-letter queue a message
\* other than the target: every non-target message that was there before
\* the call is still there, unlocked, after the call has returned.
C35_NonTargetsStay ==
    ResubmitReturned =>
        \A m \in NonTargets(dlq0) : m \in dlq /\ m.sequenceNumber \notin locked

\* C36: the peek-snapshot path (send from the peeked data, then
\* receive-and-delete) is taken only when the lock-based receive returned an
\* empty batch; a non-empty batch without the target never leads to a send.
C36_PeekPathOnlyOnEmptyBatch ==
    /\ pc \in {"rs_peek_send", "rs_close_receiver", "rs_delete", "rs_close_delete"} =>
            messages = <<>>
    /\ (messages # <<>> /\ targetMessage = Undefined) => calls["send"] = 0


(***************************************************************************)
(* Teardown of the pool: connection strings are registered and used, then  *)
(* the extension deactivates.                                              *)
(***************************************************************************)
\* the connection strings a namespace can be parsed from
ParsedConnectionStrings ==
    {cs \in TypedConnectionStrings : getNamespaceFromConnectionString(cs) # EmptyString}

\* serviceBusService.registerConnectionString(connectionString), as the add
\* command and restoreConnectionStrings call it on the running service
RegisterConnectionString ==
    \E connectionString \in ParsedConnectionStrings :
        /\ registerConnectionString(connectionString)
        /\ UNCHANGED <<namespaces, dispose, constructed, closed, disposeCalls, typed,
                       engineVars>>

\* registering connection strings, using the namespaces, then deactivating
NextTeardown ==
    \/ RegisterConnectionString
    \/ TreeOperation
    \/ DisposeCall
    \/ DisposeCloseSettles

SpecTeardown == InitDispose /\ [][NextTeardown]_vars

\* a dispose() call has just returned normally
DisposeReturned ==
    /\ returned = [call |-> "dispose"]
    /\ dispose.pc = "idle"
    /\ dispose.outcome = "ok"

\* C37: every ServiceBusClient the service ever constructed is closed by
\* the time dispose() has returned, including the clients that a later
\* registerConnectionString for the same namespace evicted from the cache.
C37_EveryClientClosed ==
    DisposeReturned => \A id \in 1..constructed : closed[id] >= 1


(***************************************************************************)
(* Removing a namespace from the running extension.                        *)
(***************************************************************************)
\* adding namespaces, using them and removing them
NextRemove ==
    \/ AddNamespaceConnectionString
    \/ AddNamespaceAzureAd
    \/ RemoveNamespace
    \/ TreeOperation

SpecRemove == InitPool /\ [][NextRemove]_vars

\* hasConnectionString(namespace): this.connectionStrings.has(namespace)
hasConnectionString(namespace) == namespace \in DOMAIN connectionStrings

\* the remove-namespace command has just completed for namespace
RemoveCompleted(namespace) ==
    returned = [call |-> "removeNamespace", arg |-> namespace, done |-> TRUE]

\* C38: after the remove-namespace command has completed for a namespace,
\* the running service holds no connection string and no cached client or
\* admin client for it (hasConnectionString is false), so a namespace added
\* again with Azure AD is not served with the removed connection string.
C38_RemoveForgetsNamespace ==
    \A namespace \in Keys :
        RemoveCompleted(namespace) =>
            /\ ~hasConnectionString(namespace)
            /\ namespace \notin DOMAIN clients
            /\ namespace \notin DOMAIN adminClients


(***************************************************************************)
(* The three dead-letter operations side by side: what they do to the      *)
(* origin entity and which tree items reach the service.                   *)
(***************************************************************************)
InitRelocate ==
    InitCommon /\ op \in {"resubmitMessage", "deleteMessage", "purgeDeadLetterQueue"}

\* the command that was invoked runs to its end
NextRelocate ==
    \/ Next
    \/ NextDelete
    \/ NextPurge

SpecRelocate == InitRelocate /\ [][NextRelocate]_vars

\* s is the beginning of t
IsPrefix(s, t) == Len(s) <= Len(t) /\ SubSeq(t, 1, Len(s)) = s

\* the command returned before any service call
ServiceNotInvoked ==
    /\ pc = "done"
    /\ calls = NoCalls
    /\ open = {}
    /\ dlq = dlq0 /\ locked = {} /\ origin = <<>>

\* C39: deleteMessage and purgeDeadLetterQueue leave the origin entity as
\* it is, resubmitMessage only adds messages to it and never removes one,
\* and the resubmit and delete commands reach the service only for a tree
\* item whose message is a dead-letter message.
C39_OriginOnlyGrows ==
    [][/\ op \in {"deleteMessage", "purgeDeadLetterQueue"} => origin' = origin
       /\ op = "resubmitMessage" => IsPrefix(origin, origin')
       /\ (/\ op \in {"resubmitMessage", "deleteMessage"}
           /\ selection' # "deadLetterMessage") => ServiceNotInvoked']_vars

C39_Witness ==
    /\ op = "resubmitMessage"
    /\ selection = "deadLetterMessage"
    /\ pc = "done" /\ result = "ok"
    /\ Len(origin) = 1
    /\ dlq # {}

=============================================================================
